---------------------------- MODULE Spec2Model ----------------------------
(***************************************************************************)
(* A model of the stof command line client's package distribution code:    *)
(* add.rs (add_package, add_dependencies, remove_package), publish.rs      *)
(* (publish_package, publish_to_registry, unpublish_package, the temporary *)
(* archive) and remote.rs (remote_exec, remote_exec_doc, set_remote_user,  *)
(* remove_remote_user), as main.rs calls them.                             *)
(*                                                                         *)
(* Strings that the code takes apart or glues together (package names,     *)
(* urls, paths) are sequences of tokens, so that trim_start_matches and    *)
(* format! are computed and not assumed.  Registry names, user names and   *)
(* passwords are only ever compared and are plain strings.                 *)
(***************************************************************************)
EXTENDS Integers, Sequences, FiniteSets, TLC

VARIABLES
    manifest,   \* the parsed <pkg_dir>/pkg.stof of the workspace
    net,        \* what the registries answer: url -> response
    fs,         \* the files under the working directory: path -> content
    cmd,        \* the command line invocation in progress
    calls,      \* the add_package calls of this invocation, in call order
    reqs,       \* the HTTP requests sent by this invocation, in send order
    last,       \* the previous invocation
    zip,        \* what building and reading the temporary archive gives
    tmp,        \* whether the temporary archive file exists
    pub,        \* where publish_package is
    tasks,      \* the publish_to_registry tasks of the JoinSet, in spawn order
    lock,       \* the task holding the mutex around (pkg_doc, bytes), or 0
    args,       \* the arguments of the publish, unpublish, run and user commands
    zipped,     \* the entries of the temporary archive built last
    unpub,      \* where unpublish_package is
    remote      \* where remote_exec, remote_exec_doc or the admin call is

installVars == <<fs, calls, last>>
publishVars == <<zip, tmp, pub, tasks, lock>>
remoteVars == <<args, zipped, unpub, remote>>
vars == <<manifest, net, fs, cmd, calls, reqs, last, zip, tmp, pub, tasks, lock,
          args, zipped, unpub, remote>>

-----------------------------------------------------------------------------
(* Bounds of the model. *)

\* entries of root.registries in the workspaces the resolution is run on
MaxRegistries == 3

\* entries of root.publish in the packages that are published
MaxPublish == 3

\* add_package calls one invocation may make before the model stops it
MaxCalls == 6

-----------------------------------------------------------------------------
(* Option<String>::None *)
NONE == "none"

(* str::trim_start_matches(c): every leading c is removed. *)
RECURSIVE TrimStartMatches(_, _)
TrimStartMatches(s, c) ==
    IF s # <<>> /\ Head(s) = c THEN TrimStartMatches(Tail(s), c) ELSE s

(* format!("{}/registry/{}", url, download) *)
RegistryUrl(url, download) == url \o <<"/registry/">> \o download

(* a header built as soon as one of the two is given *)
AuthHeader_EitherGiven(username, password) ==
    IF username # NONE \/ password # NONE
    THEN <<"Basic", username, password>>
    ELSE <<>>

(* Credentials::new(user, pass).as_http_header(), when both are given *)
AuthHeader(username, password) ==
    IF username # NONE /\ password # NONE
    THEN <<"Basic", username, password>>
    ELSE <<>>

-----------------------------------------------------------------------------
(* Registry resolution, add_package lines 35-62. *)

NoReg == [name |-> NONE, isObject |-> FALSE, default |-> FALSE,
          hasUrl |-> FALSE, url |-> <<>>]

(* a scan that keeps the first entry tagged default *)
RECURSIVE DefaultScan_FirstDefault(_, _)
DefaultScan_FirstDefault(fields, reg) ==
    IF fields = <<>> THEN reg
    ELSE LET field == Head(fields)
             next == IF ~field.isObject THEN reg
                     ELSE IF reg = NoReg THEN field
                     ELSE IF field.default /\ ~reg.default THEN field
                     ELSE reg
         IN DefaultScan_FirstDefault(Tail(fields), next)

(* The fields of root.registries are scanned in order; only fields holding *)
(* an object count.                                                        *)
RECURSIVE DefaultScan(_, _)
DefaultScan(fields, reg) ==
    IF fields = <<>> THEN reg
    ELSE LET field == Head(fields)
             next == IF ~field.isObject THEN reg
                     ELSE IF reg = NoReg THEN field
                     ELSE IF field.default THEN field
                     ELSE reg
         IN DefaultScan(Tail(fields), next)

(* a lookup that falls back to the default scan when the name is not found *)
NamedLookup_FallBack(fields, reg_name) ==
    LET hits == {i \in 1..Len(fields) : fields[i].name = reg_name /\ fields[i].isObject}
    IN IF hits = {} THEN DefaultScan(fields, NoReg)
       ELSE fields[CHOOSE i \in hits : TRUE]

NamedLookup(fields, reg_name) ==
    LET hits == {i \in 1..Len(fields) : fields[i].name = reg_name}
    IN IF hits = {} THEN NoReg
       ELSE LET field == fields[CHOOSE i \in hits : TRUE]
            IN IF field.isObject THEN field ELSE NoReg

ResolveRegistry(fields, registry) ==
    IF registry # NONE THEN NamedLookup(fields, registry)
    ELSE DefaultScan(fields, NoReg)

-----------------------------------------------------------------------------
(* The file system. *)

StofDir == <<"__stof__", "/">>
PkgStof == <<"/", "pkg.stof">>

NoManifest == [ok |-> FALSE, hasDeps |-> FALSE, isArray |-> FALSE, deps |-> <<>>,
               regs |-> <<>>]
Dir == [kind |-> "dir", man |-> NoManifest]

(* path is dir itself or lies below it *)
Under(path, dir) ==
    /\ Len(path) >= Len(dir)
    /\ SubSeq(path, 1, Len(dir)) = dir
    /\ \/ Len(path) = Len(dir)
       \/ dir = <<>>
       \/ dir[Len(dir)] = "/"
       \/ path[Len(dir) + 1] = "/"

PathExists(files, dir) == \E p \in DOMAIN files : Under(p, dir)

(* fs::remove_dir_all(dir) *)
RemoveDirAll(files, dir) ==
    [p \in {q \in DOMAIN files : ~Under(q, dir)} |-> files[p]]

(* the install directory of a package *)
InstallDir(download_pkg) == StofDir \o TrimStartMatches(download_pkg, "@")

(* PKG::unzip_pkg_bytes: what was at the install directory is deleted, the *)
(* directory is created again and every entry of the archive is written    *)
(* below it.                                                               *)
UnzipPkgBytes(files, download_pkg, archive) ==
    LET outdir == InstallDir(download_pkg)
        kept == RemoveDirAll(files, outdir)
        written == {outdir \o <<"/">> \o rel : rel \in DOMAIN archive}
    IN [p \in DOMAIN kept \cup {outdir} \cup written |->
            IF p \in written
            THEN archive[SubSeq(p, Len(outdir) + 2, Len(p))]
            ELSE IF p = outdir THEN Dir
            ELSE kept[p]]

(* the manifest read from the directory as it was before the extraction *)
DependencyVals_BeforeExtract(files, outdir) ==
    LET path == outdir \o PkgStof
    IN IF path \in DOMAIN fs /\ fs[path].man.ok
          /\ fs[path].man.hasDeps /\ fs[path].man.isArray
       THEN fs[path].man.deps
       ELSE <<>>

(* SDoc::file(<outdir>/pkg.stof) and the root.dependencies array of it,    *)
(* add_dependencies lines 119-123: the entries the loop will go through.   *)
DependencyVals(files, outdir) ==
    LET path == outdir \o PkgStof
    IN IF path \in DOMAIN files /\ files[path].man.ok
          /\ files[path].man.hasDeps /\ files[path].man.isArray
       THEN files[path].man.deps
       ELSE <<>>

-----------------------------------------------------------------------------
(* The registries. *)

NotFound == [kind |-> "not_success", archive |-> <<>>]

(* the answer to GET url *)
Serve(url) == IF url \in DOMAIN net THEN net[url] ELSE NotFound

-----------------------------------------------------------------------------
(* add_package calls. *)

Call(download_pkg, registry, dependency, username, password, parent, depIdx) ==
    [download_pkg |-> download_pkg, registry |-> registry,
     dependency |-> dependency, username |-> username, password |-> password,
     parent |-> parent, depIdx |-> depIdx,
     pc |-> "start", outcome |-> NONE, url |-> <<>>,
     vals |-> <<>>, next |-> 1, waiting |-> 0,
     fs0 |-> fs, reqs0 |-> Len(reqs)]

Idle == [kind |-> "idle", pkg |-> <<>>, registry |-> NONE,
         username |-> NONE, password |-> NONE, repeat |-> FALSE, fs0 |-> <<>>]

Returned(i, outcome) ==
    [calls EXCEPT ![i].pc = "done", ![i].outcome = outcome]

(* a loop that starts the next add_package without awaiting the last one *)
Awaited_NotAwaited(child) == TRUE

(* the await of a recursive add_package call, lines 127, 132, 134 *)
Awaited(child) == IF child = 0 THEN TRUE ELSE calls[child].pc = "done"

(* registries taken from the manifest of the package that declared the    *)
(* dependency                                                              *)
Registries_OfParent(i) ==
    IF calls[i].parent = 0 THEN manifest.regs
    ELSE LET path == InstallDir(calls[calls[i].parent].download_pkg) \o <<"/", "pkg.stof">>
         IN IF path \in DOMAIN fs THEN fs[path].man.regs ELSE <<>>

(* the registries a call resolves against: those of <pkg_dir>/pkg.stof,    *)
(* lines 33-35 and 48, pkg_dir being handed down unchanged by              *)
(* add_dependencies, lines 127-134                                         *)
Registries(i) == manifest.regs

(* add_package lines 33-79: from the call to the GET being sent *)
AddPackageStart(i) ==
    /\ calls[i].pc = "start"
    /\ LET c == calls[i]
           reg == ResolveRegistry(Registries(i), c.registry)
           url == RegistryUrl(reg.url, TrimStartMatches(c.download_pkg, "@"))
       IN IF ~manifest.ok
          THEN /\ calls' = Returned(i, "pkg.stof file not found")
               /\ reqs' = reqs
          ELSE IF reg = NoReg
          THEN /\ calls' = Returned(i, "registry not found")
               /\ reqs' = reqs
          ELSE IF ~reg.hasUrl
          THEN /\ calls' = Returned(i, "registry URL not found")
               /\ reqs' = reqs
          ELSE /\ calls' = [calls EXCEPT ![i].pc = "get", ![i].url = url]
               /\ reqs' = Append(reqs, [method |-> "GET", url |-> url,
                                       auth |-> AuthHeader(c.username, c.password),
                                       call |-> i])
    /\ UNCHANGED <<remoteVars, manifest, net, fs, cmd, last, publishVars>>

(* match res { Ok(response) => .., Err(error) => .. }, line 81 *)
SendOk(res) == res.kind # "transport_error"

(* a response handled without looking at its status *)
IsSuccess_Unchecked(res) == TRUE

(* response.status().is_success(), line 83 *)
IsSuccess(res) == res.kind # "not_success"

(* if let Ok(bytes) = response.bytes().await, line 84 *)
BytesOk(res) == res.kind # "bytes_error"

(* add_package lines 81-104 and add_dependencies lines 119-123: the        *)
(* response, the extraction and the reading of the extracted manifest      *)
AddPackageResponse(i) ==
    /\ calls[i].pc = "get"
    /\ LET c == calls[i]
           res == Serve(c.url)
           unzipped == UnzipPkgBytes(fs, c.download_pkg, res.archive)
       IN IF ~SendOk(res)
          THEN /\ calls' = Returned(i, "add send error")
               /\ fs' = fs
          ELSE IF ~IsSuccess(res)
          THEN /\ calls' = Returned(i, "does not exist or not authenticated")
               /\ fs' = fs
          ELSE IF ~BytesOk(res)
          THEN /\ calls' = Returned(i, "could not parse response into bytes")
               /\ fs' = fs
          ELSE /\ fs' = unzipped
               /\ calls' = [calls EXCEPT
                      ![i].pc = "deps",
                      ![i].vals = DependencyVals(unzipped, InstallDir(c.download_pkg))]
    /\ UNCHANGED <<remoteVars, manifest, net, cmd, reqs, last, publishVars>>

(* a loop that does not pass the registry of an entry on *)
DependencyRegistry_Dropped(val) == NONE

(* the registry a dependency entry names, lines 126-135 *)
DependencyRegistry(val) ==
    IF val.kind = "obj" /\ val.hasRegistry THEN val.registry ELSE NONE

(* a loop that skips the packages this invocation has already asked for *)
DependencyCalled_VisitedGuard(val) ==
    /\ val.kind = "str" \/ (val.kind = "obj" /\ val.hasName)
    /\ \A j \in 1..Len(calls) :
          TrimStartMatches(calls[j].download_pkg, "@") # TrimStartMatches(val.name, "@")

(* whether a dependency entry leads to a call, lines 125-138 *)
DependencyCalled(val) ==
    val.kind = "str" \/ (val.kind = "obj" /\ val.hasName)

(* a call that reports the failure of one of its dependencies *)
Added_UnlessFailed(i) ==
    IF \E j \in 1..Len(calls) :
          calls[j].parent = i /\ calls[j].pc = "done"
             /\ calls[j].outcome \notin {"added", "added dependency"}
    THEN "dependency failed"
    ELSE IF calls[i].dependency THEN "added dependency" ELSE "added"

(* what a call reports after add_dependencies has returned, lines 87-93:   *)
(* add_dependencies returns nothing, and the results of the calls it made  *)
(* are not looked at                                                       *)
Added(i) == IF calls[i].dependency THEN "added dependency" ELSE "added"

(* add_dependencies lines 124-140 and add_package lines 89-93: the next    *)
(* entry of the loop, or the end of the loop and of the call               *)
AddDependenciesNext(i) ==
    /\ calls[i].pc = "deps"
    /\ Awaited(calls[i].waiting)
    /\ LET c == calls[i]
       IN IF c.next > Len(c.vals)
          THEN calls' = Returned(i, Added(i))
          ELSE IF ~DependencyCalled(c.vals[c.next])
          THEN calls' = [calls EXCEPT ![i].next = c.next + 1, ![i].waiting = 0]
          ELSE /\ Len(calls) < MaxCalls
               /\ calls' = Append(
                      [calls EXCEPT ![i].next = c.next + 1,
                                    ![i].waiting = Len(calls) + 1],
                      Call(c.vals[c.next].name, DependencyRegistry(c.vals[c.next]),
                           TRUE, c.username, c.password, i, c.next))
    /\ UNCHANGED <<remoteVars, manifest, net, fs, cmd, reqs, last, publishVars>>

-----------------------------------------------------------------------------
(* The temporary archive, create_temp_pkg_zip, publish.rs lines 98-160. *)

NoField == [kind |-> "none", vals |-> <<>>]

(* a collection that takes the strings of an array only *)
StringsOf_ArrayOnly(field) ==
    IF field.kind = "array"
    THEN {field.vals[k].str : k \in {j \in 1..Len(field.vals) : field.vals[j].isString}}
    ELSE {}

(* the strings of a field that is an array or a set, lines 103-127 and     *)
(* 128-152; a value that is no string is passed over                       *)
StringsOf(field) ==
    IF field.kind \in {"array", "set"}
    THEN {field.vals[k].str : k \in {j \in 1..Len(field.vals) : field.vals[j].isString}}
    ELSE {}

Included(man) == StringsOf(man.include)
Excluded(man) == StringsOf(man.exclude)

(* a pattern is searched for in the path of an entry *)
Matches(pattern, path) == \E k \in 1..Len(path) : path[k] = pattern

(* PKG::create_temp_zip: the entries below the directory, without those    *)
(* whose path holds the name of the install directory and without those    *)
(* whose path matches a pattern of excluded; included is not consulted.    *)
CreateTempZip(files, included, excluded) ==
    LET entries == {path \in DOMAIN files :
                       /\ ~Matches("__stof__", path)
                       /\ \A pattern \in excluded : ~Matches(pattern, path)}
    IN [path \in entries |-> files[path]]

(* fs::remove_file(&temp_zip_file_path), publish.rs line 207 and remote.rs *)
(* line 53: whether the file is still there, the archive having been read  *)
(* or not                                                                  *)
AfterRemoveFile_OnlyIfRead(read_ok) == ~read_ok

AfterRemoveFile(read_ok) == FALSE

-----------------------------------------------------------------------------
(* publish_package and publish_to_registry, publish.rs. *)

NotPublishing == [pc |-> "idle", outcome |-> NONE, pkg_path |-> <<>>]

(* the objects of the root.publish array, lines 174-188; the array is read *)
(* only when root.name exists, line 170                                    *)
RECURSIVE ObjectsOf(_)
ObjectsOf(vals) ==
    IF vals = <<>> THEN <<>>
    ELSE IF Head(vals).isObject THEN <<Head(vals)>> \o ObjectsOf(Tail(vals))
    ELSE ObjectsOf(Tail(vals))

PublishRegistries(man) ==
    IF man.hasName /\ man.publishIsArray THEN ObjectsOf(man.publish) ELSE <<>>

(* a path that keeps the name as it is written *)
PublishPath_Unstripped(man) ==
    IF man.hasName THEN man.name ELSE <<>>

(* pkg_name.trim_start_matches("@"), lines 171-172 *)
PublishPath(man) ==
    IF man.hasName THEN TrimStartMatches(man.name, "@") ELSE <<>>

Task(registry, publish_path) ==
    [registry |-> registry, publish_path |-> publish_path,
     pc |-> "spawned", url |-> <<>>, outcome |-> NONE, joined |-> FALSE]

RECURSIVE Spawned(_, _)
Spawned(registries, publish_path) ==
    IF registries = <<>> THEN <<>>
    ELSE <<Task(Head(registries), publish_path)>>
            \o Spawned(Tail(registries), publish_path)

(* publish_package lines 165-196: the manifest, the name, the registries   *)
(* and the temporary archive                                               *)
PublishPackage ==
    /\ cmd.kind = "idle"
    /\ pub.pc = "idle"
    /\ cmd' = [Idle EXCEPT !.kind = "publish", !.username = args.username,
                           !.password = args.password]
    /\ reqs' = <<>>
    /\ tasks' = <<>>
    /\ IF ~manifest.ok
       THEN /\ pub' = [pc |-> "done", outcome |-> "pkg.stof file not found",
                       pkg_path |-> <<>>]
            /\ UNCHANGED <<tmp, zipped>>
       ELSE IF Len(PublishRegistries(manifest)) < 1 \/ Len(PublishPath(manifest)) < 1
       THEN /\ pub' = [pc |-> "done",
                       outcome |-> "not a valid name or didn't find any registries",
                       pkg_path |-> PublishPath(manifest)]
            /\ UNCHANGED <<tmp, zipped>>
       ELSE IF zip = "fail"
       THEN /\ pub' = [pc |-> "done", outcome |-> "failed to zip package directory",
                       pkg_path |-> PublishPath(manifest)]
            /\ UNCHANGED <<tmp, zipped>>
       ELSE /\ pub' = [pc |-> "zipped", outcome |-> NONE,
                       pkg_path |-> PublishPath(manifest)]
            /\ tmp' = TRUE
            /\ zipped' = CreateTempZip(fs, Included(manifest), Excluded(manifest))
    /\ UNCHANGED <<args, unpub, remote, manifest, net, installVars, zip, lock>>

(* publish_package lines 197-202, and 207-208 when the archive cannot be   *)
(* read: a task is spawned for every registry                              *)
PublishSpawn ==
    /\ pub.pc = "zipped"
    /\ IF zip = "unreadable"
       THEN /\ tmp' = AfterRemoveFile(FALSE)
            /\ pub' = [pub EXCEPT !.pc = "done", !.outcome = "publish success"]
            /\ tasks' = tasks
       ELSE /\ tmp' = tmp
            /\ pub' = [pub EXCEPT !.pc = "joining"]
            /\ tasks' = Spawned(PublishRegistries(manifest), pub.pkg_path)
    /\ UNCHANGED <<remoteVars, manifest, net, installVars, cmd, reqs, zip, lock>>

(* publish_to_registry line 223: pkg.lock().await *)
TaskLock(t) ==
    /\ tasks[t].pc = "spawned"
    /\ lock = 0
    /\ lock' = t
    /\ tasks' = [tasks EXCEPT ![t].pc = "locked"]
    /\ UNCHANGED <<remoteVars, manifest, net, installVars, cmd, reqs, zip, tmp, pub>>

(* a task that gives up when another task has failed *)
CanPut_UnlessFailed(registry) ==
    /\ zip # "empty" /\ registry.hasUrl /\ Len(registry.url) > 0
    /\ \A u \in 1..Len(tasks) :
          tasks[u].outcome \notin {"publish send error", "panic", "text of 500"}

(* bytes.len() > 0 && url.len() > 0, line 232; url is empty when the       *)
(* registry has no url field, lines 220-229                                *)
CanPut(registry) == zip # "empty" /\ registry.hasUrl /\ Len(registry.url) > 0

(* publish_to_registry lines 224-238 and 248-250: the url and the bytes    *)
(* are read, the mutex is released and the PUT is sent                     *)
TaskSend(t) ==
    /\ tasks[t].pc = "locked"
    /\ lock = t
    /\ lock' = 0
    /\ IF CanPut(tasks[t].registry)
       THEN LET url == RegistryUrl(tasks[t].registry.url, tasks[t].publish_path)
            IN /\ tasks' = [tasks EXCEPT ![t].pc = "sent", ![t].url = url]
               /\ reqs' = Append(reqs, [method |-> "PUT", url |-> url,
                                       auth |-> <<>>, call |-> t,
                                       body |-> zipped])
       ELSE /\ tasks' = [tasks EXCEPT ![t].pc = "done",
                   ![t].outcome = "registry URL not found, or package has a size of 0 bytes"]
            /\ reqs' = reqs
    /\ UNCHANGED <<remoteVars, manifest, net, installVars, cmd, zip, tmp, pub>>

(* publish_to_registry lines 239-247: the response; resp.text() of a body  *)
(* that cannot be read panics at the unwrap and ends the task              *)
TaskResponse(t) ==
    /\ tasks[t].pc = "sent"
    /\ LET res == Serve(tasks[t].url)
       IN tasks' = IF ~SendOk(res)
                   THEN [tasks EXCEPT ![t].pc = "done", ![t].outcome = "publish send error"]
                   ELSE IF ~BytesOk(res)
                   THEN [tasks EXCEPT ![t].pc = "panicked", ![t].outcome = "panic"]
                   ELSE [tasks EXCEPT ![t].pc = "done",
                                      ![t].outcome = IF IsSuccess(res) THEN "text of 200"
                                                                       ELSE "text of 500"]
    /\ UNCHANGED <<remoteVars, manifest, net, installVars, cmd, reqs, zip, tmp, pub, lock>>

Finished(task) == task.pc \in {"done", "panicked"}

(* set.join_next().await gives Some: a task that has ended leaves the set, *)
(* line 203                                                                *)
JoinNext(t) ==
    /\ pub.pc = "joining"
    /\ Finished(tasks[t])
    /\ ~tasks[t].joined
    /\ tasks' = [tasks EXCEPT ![t].joined = TRUE]
    /\ UNCHANGED <<remoteVars, manifest, net, installVars, cmd, reqs, zip, tmp, pub, lock>>

(* a loop left after the first task that has ended *)
JoinSetEmpty_FirstJoined == \E t \in 1..Len(tasks) : tasks[t].joined

(* set.join_next().await gives None: the set is empty, line 203 *)
JoinSetEmpty == \A t \in 1..Len(tasks) : tasks[t].joined

(* publish_package lines 203-208: the end of the join loop, the removal of *)
(* the temporary archive and the final message                             *)
PublishJoined ==
    /\ pub.pc = "joining"
    /\ JoinSetEmpty
    /\ tmp' = AfterRemoveFile(TRUE)
    /\ pub' = [pub EXCEPT !.pc = "done", !.outcome = "publish success"]
    /\ UNCHANGED <<remoteVars, manifest, net, installVars, cmd, reqs, zip, tasks, lock>>

(* Command::Publish, main.rs lines 261-267: the process ends when          *)
(* publish_package has returned                                            *)
CliPublishExit ==
    /\ cmd.kind = "publish"
    /\ pub.pc = "done"
    /\ cmd' = Idle
    /\ pub' = NotPublishing
    /\ tasks' = <<>>
    /\ reqs' = <<>>
    /\ UNCHANGED <<remoteVars, manifest, net, installVars, zip, tmp, lock>>

-----------------------------------------------------------------------------
(* unpublish_package, publish.rs lines 255-307. *)

NotUnpublishing ==
    [pc |-> "idle", outcome |-> NONE, pkg_path |-> <<>>, registries |-> <<>>,
     next |-> 1, waiting |-> {}, outcomes |-> <<>>]

(* lines 256-285: the manifest, the name and the registries *)
UnpublishPackage ==
    /\ cmd.kind = "idle"
    /\ unpub.pc = "idle"
    /\ cmd' = [Idle EXCEPT !.kind = "unpublish", !.username = args.username,
                           !.password = args.password]
    /\ reqs' = <<>>
    /\ unpub' =
          IF ~manifest.ok
          THEN [NotUnpublishing EXCEPT !.pc = "done",
                                       !.outcome = "pkg.stof file not found"]
          ELSE IF Len(PublishRegistries(manifest)) < 1 \/ Len(PublishPath(manifest)) < 1
          THEN [NotUnpublishing EXCEPT
                   !.pc = "done",
                   !.outcome = "not a valid name or didn't find any registries",
                   !.pkg_path = PublishPath(manifest)]
          ELSE [NotUnpublishing EXCEPT !.pc = "loop",
                                       !.pkg_path = PublishPath(manifest),
                                       !.registries = PublishRegistries(manifest)]
    /\ UNCHANGED <<args, zipped, remote, manifest, net, installVars, publishVars>>

(* a loop that sends the next DELETE without awaiting the last response *)
DeleteAwaited_NotAwaited(waiting) == TRUE

(* client.delete(&url).send().await, line 291 *)
DeleteAwaited(waiting) == waiting = {}

(* lines 288-291 and 303: the next registry of the loop.  A registry       *)
(* without url field is passed over; a url that is empty gives a request   *)
(* that cannot be built, and send() returns the error without sending.     *)
UnpublishNext ==
    /\ unpub.pc = "loop"
    /\ DeleteAwaited(unpub.waiting)
    /\ LET i == unpub.next
       IN IF i > Len(unpub.registries)
          THEN /\ unpub' = [unpub EXCEPT
                      !.pc = "done",
                      !.outcome = "successfully removed package from all registries"]
               /\ reqs' = reqs
          ELSE IF ~unpub.registries[i].hasUrl
          THEN /\ unpub' = [unpub EXCEPT !.next = i + 1]
               /\ reqs' = reqs
          ELSE IF unpub.registries[i].url = <<>>
          THEN /\ unpub' = [unpub EXCEPT
                      !.next = i + 1,
                      !.outcomes = Append(@, <<i, "unpublish send error">>)]
               /\ reqs' = reqs
          ELSE /\ unpub' = [unpub EXCEPT !.next = i + 1, !.waiting = @ \cup {i}]
               /\ reqs' = Append(reqs,
                      [method |-> "DELETE",
                       url |-> RegistryUrl(unpub.registries[i].url, unpub.pkg_path),
                       auth |-> <<>>, call |-> i])
    /\ UNCHANGED <<args, zipped, remote, manifest, net, installVars, cmd, publishVars>>

(* lines 292-300: the response; response.text() of a body that cannot be   *)
(* read panics at the unwrap and ends the process                          *)
UnpublishResponse(i) ==
    /\ unpub.pc = "loop"
    /\ i \in unpub.waiting
    /\ LET res == Serve(RegistryUrl(unpub.registries[i].url, unpub.pkg_path))
       IN unpub' =
            IF ~SendOk(res)
            THEN [unpub EXCEPT !.waiting = @ \ {i},
                               !.outcomes = Append(@, <<i, "unpublish send error">>)]
            ELSE IF ~BytesOk(res)
            THEN [unpub EXCEPT !.waiting = @ \ {i}, !.pc = "panicked",
                               !.outcome = "panic",
                               !.outcomes = Append(@, <<i, "panic">>)]
            ELSE [unpub EXCEPT !.waiting = @ \ {i},
                               !.outcomes = Append(@,
                                   <<i, IF IsSuccess(res) THEN "text of 200"
                                                          ELSE "text of 500">>)]
    /\ UNCHANGED <<args, zipped, remote, manifest, net, installVars, cmd, reqs,
                   publishVars>>

(* Command::Unpublish, main.rs lines 268-274: the process ends when        *)
(* unpublish_package has returned or panicked                              *)
CliUnpublishExit ==
    /\ cmd.kind = "unpublish"
    /\ unpub.pc \in {"done", "panicked"}
    /\ cmd' = Idle
    /\ unpub' = NotUnpublishing
    /\ reqs' = <<>>
    /\ UNCHANGED <<args, zipped, remote, manifest, net, installVars, publishVars>>

-----------------------------------------------------------------------------
(* remote_exec and remote_exec_doc, remote.rs lines 27-187. *)

(* let mut bytes = None, line 46, and the bytes of an archive, of a file   *)
(* and of an exported document                                             *)
NoBytes == [kind |-> "none", entries |-> <<>>, content |-> NONE]
PkgBytes(entries) == [kind |-> "pkg", entries |-> entries, content |-> NONE]
FileBytes(content) == [kind |-> "file", entries |-> <<>>, content |-> content]
DocBytes(content) == [kind |-> "bstof", entries |-> <<>>, content |-> content]

NotRemote ==
    [pc |-> "idle", kind |-> NONE, outcome |-> NONE,
     headers |-> [auth |-> <<>>, content_type |-> NONE],
     body |-> NoBytes, doc |-> <<>>, to_call |-> <<>>, next |-> 1,
     called |-> <<>>, printed |-> FALSE]

(* format!("{}/run", address), lines 38 and 126 *)
RunUrl(address) == address \o <<"/run">>

(* a header map that has the header as soon as one of the two is given *)
Headers_EitherGiven(username, password) ==
    [auth |-> AuthHeader_EitherGiven(username, password), content_type |-> NONE]

(* the header map before the content type is known, lines 40-44, 129-133 *)
Headers(username, password) ==
    [auth |-> AuthHeader(username, password), content_type |-> NONE]

(* remote_exec lines 27-49 and 55-63, called by main.rs lines 213-221: the *)
(* path, the headers, and the temporary archive of a directory or the      *)
(* bytes of a file                                                         *)
RemoteExec ==
    /\ cmd.kind = "idle"
    /\ remote.pc = "idle"
    /\ args.on # NONE
    /\ ~args.parse_local
    /\ cmd' = [Idle EXCEPT !.kind = "run", !.username = args.username,
                           !.password = args.password]
    /\ reqs' = <<>>
    /\ LET headers == Headers(args.username, args.password)
           started == [NotRemote EXCEPT !.kind = "run"]
       IN IF args.path.kind = "none"
          THEN /\ remote' = [started EXCEPT !.pc = "done",
                                            !.outcome = "no directory or path found"]
               /\ UNCHANGED <<tmp, zipped>>
          ELSE IF args.path.kind = "dir"
          THEN IF manifest.ok /\ zip # "fail"
               THEN /\ remote' = [started EXCEPT
                          !.pc = "zipped",
                          !.headers = [headers EXCEPT !.content_type = "pkg"]]
                    /\ tmp' = TRUE
                    /\ zipped' = CreateTempZip(fs, Included(manifest), Excluded(manifest))
               ELSE /\ remote' = [started EXCEPT
                          !.pc = "ready",
                          !.headers = [headers EXCEPT !.content_type = "pkg"]]
                    /\ UNCHANGED <<tmp, zipped>>
          ELSE /\ remote' = [started EXCEPT
                      !.pc = "ready",
                      !.headers = [headers EXCEPT !.content_type = args.path.ext],
                      !.body = IF args.path.kind = "file" /\ args.path.readable
                               THEN FileBytes(args.path.content) ELSE NoBytes]
               /\ UNCHANGED <<tmp, zipped>>
    /\ UNCHANGED <<args, unpub, manifest, net, installVars, zip, pub, tasks, lock>>

(* remote_exec lines 50-53: the archive is read and its file removed *)
RemoteRead ==
    /\ remote.pc = "zipped"
    /\ remote' = [remote EXCEPT
           !.pc = "ready",
           !.body = IF zip = "unreadable" THEN NoBytes
                    ELSE IF zip = "empty" THEN PkgBytes(<<>>)
                    ELSE PkgBytes(zipped)]
    /\ tmp' = AfterRemoveFile(zip # "unreadable")
    /\ UNCHANGED <<args, zipped, unpub, manifest, net, installVars, cmd, reqs, zip,
                   pub, tasks, lock>>

(* remote_exec lines 65-70 and 117-119: the POST, if there are bytes *)
RemotePost ==
    /\ remote.pc = "ready"
    /\ IF remote.body = NoBytes
       THEN /\ remote' = [remote EXCEPT !.pc = "done",
                                        !.outcome = "package/file contents not found"]
            /\ reqs' = reqs
       ELSE /\ remote' = [remote EXCEPT !.pc = "sent"]
            /\ reqs' = Append(reqs, [method |-> "POST", url |-> RunUrl(args.on),
                                    auth |-> remote.headers.auth,
                                    content_type |-> remote.headers.content_type,
                                    body |-> remote.body, call |-> 0])
    /\ UNCHANGED <<args, zipped, unpub, manifest, net, installVars, cmd, publishVars>>

(* remote_exec_doc lines 124-140, called by main.rs lines 224-236: the     *)
(* document parsed here is exported and sent                               *)
RemoteExecDoc ==
    /\ cmd.kind = "idle"
    /\ remote.pc = "idle"
    /\ args.on # NONE
    /\ args.parse_local
    /\ cmd' = [Idle EXCEPT !.kind = "run", !.username = args.username,
                           !.password = args.password]
    /\ LET headers == [Headers(args.username, args.password)
                          EXCEPT !.content_type = "application/bstof"]
       IN /\ remote' = [NotRemote EXCEPT !.kind = "run_doc", !.pc = "sent",
                                         !.headers = headers,
                                         !.body = DocBytes(args.path.content)]
          /\ reqs' = <<[method |-> "POST", url |-> RunUrl(args.on),
                        auth |-> headers.auth,
                        content_type |-> headers.content_type,
                        body |-> DocBytes(args.path.content), call |-> 0]>>
    /\ UNCHANGED <<args, zipped, unpub, manifest, net, installVars, publishVars>>

(* the content type a response is decoded as, lines 75-78 and 145-148 *)
ContentType(res) == IF res.hasContentType THEN res.content_type ELSE "bstof"

(* content_type.contains("text"), lines 86 and 156 *)
IsText(content_type) == content_type \in {"text", "text/plain"}

(* a list that takes every function of the main root *)
ToCall_All(funcs) == [k \in 1..Len(funcs) |-> funcs[k].name]

(* the functions of the main root that have the attribute local, lines     *)
(* 94-101 and 164-171, in the order func_refs gives them                   *)
RECURSIVE ToCall(_)
ToCall(funcs) ==
    IF funcs = <<>> THEN <<>>
    ELSE IF Head(funcs).local THEN <<Head(funcs).name>> \o ToCall(Tail(funcs))
    ELSE ToCall(Tail(funcs))

(* lines 72-101 and 142-171: the response is decoded, its text printed and *)
(* the functions to call are collected                                     *)
RemoteResponse ==
    /\ remote.pc = "sent"
    /\ remote.kind \in {"run", "run_doc"}
    /\ LET res == Serve(RunUrl(args.on))
       IN remote' =
            IF ~SendOk(res)
            THEN [remote EXCEPT !.pc = "done", !.outcome = "remote exec error"]
            ELSE IF ~BytesOk(res)
            THEN [remote EXCEPT !.pc = "done", !.outcome = "no bytes"]
            ELSE IF ~res.decodes
            THEN [remote EXCEPT !.pc = "done",
                                !.outcome = "remote exec error bad response"]
            ELSE [remote EXCEPT
                     !.pc = "calling",
                     !.doc = res.funcs,
                     !.printed = IsText(ContentType(res)) /\ res.hasText,
                     !.to_call = IF res.hasMain THEN ToCall(res.funcs) ELSE <<>>]
    /\ UNCHANGED <<args, zipped, unpub, manifest, net, installVars, cmd, reqs,
                   publishVars>>

(* the function of the document with this name *)
FuncNamed(doc, name) == doc[CHOOSE k \in 1..Len(doc) : doc[k].name = name]

(* a loop that goes through the functions of the document as it is now *)
Remaining_Reenumerated(r) ==
    LET now == ToCall(r.doc)
    IN SelectSeq(now, LAMBDA name : \A k \in 1..Len(r.called) : r.called[k].name # name)

(* what is left of to_call, lines 102 and 172 *)
Remaining(r) == SubSeq(r.to_call, r.next, Len(r.to_call))

(* lines 102-104 and 172-174: the next function is called with no         *)
(* arguments on the document, which it may change, and its result dropped; *)
(* after the last one the call returns                                     *)
RemoteCall ==
    /\ remote.pc = "calling"
    /\ LET left == Remaining(remote)
       IN IF left = <<>>
          THEN remote' = [remote EXCEPT !.pc = "done", !.outcome = "returned"]
          ELSE LET func == FuncNamed(remote.doc, Head(left))
               IN remote' = [remote EXCEPT
                     !.next = @ + 1,
                     !.called = Append(@, [name |-> func.name, arguments |-> <<>>,
                                           result |-> IF func.fails THEN "Err" ELSE "Ok"]),
                     !.doc = IF func.fails \/ func.defines = NONE THEN @
                             ELSE Append(@, [name |-> func.defines, local |-> TRUE,
                                             fails |-> FALSE, defines |-> NONE])]
    /\ UNCHANGED <<args, zipped, unpub, manifest, net, installVars, cmd, reqs,
                   publishVars>>

(* Command::Run, main.rs lines 211-236: the process ends when the remote   *)
(* call has returned                                                       *)
CliRunExit ==
    /\ cmd.kind = "run"
    /\ remote.pc = "done"
    /\ cmd' = Idle
    /\ remote' = NotRemote
    /\ reqs' = <<>>
    /\ UNCHANGED <<args, zipped, unpub, manifest, net, installVars, publishVars>>

-----------------------------------------------------------------------------
(* set_remote_user and remove_remote_user, remote.rs lines 193-250. *)

(* format!("{}/admin/users", address), lines 194 and 225 *)
AdminUrl(address) == address \o <<"/admin/users">>

(* a default of read and exec with exec as the third bit *)
UserPerms_ThreeBits(perms) == IF perms = <<>> THEN 5 ELSE perms[1]

(* user_perms, main.rs lines 301-304: 0b1001 unless perms is given *)
UserPerms(perms) == IF perms = <<>> THEN 9 ELSE perms[1]

(* user_scope, main.rs lines 305-308 *)
UserScope(scope) == IF scope = NONE THEN "" ELSE scope

(* the header map of an admin request, lines 197-200 and 228-231 *)
AdminHeaders(admin_user, admin_pass) ==
    [auth |-> <<"Basic", admin_user, admin_pass>>, content_type |-> "application/stof"]

(* Command::SetRemoteUser, main.rs lines 300-310, and set_remote_user      *)
(* lines 193-206: the POST                                                 *)
SetRemoteUser ==
    /\ cmd.kind = "idle"
    /\ remote.pc = "idle"
    /\ args.admin_user # NONE
    /\ cmd' = [Idle EXCEPT !.kind = "set-remote-user"]
    /\ LET headers == AdminHeaders(args.admin_user, args.admin_pass)
           payload == [username |-> args.username, password |-> args.password,
                       perms |-> UserPerms(args.perms),
                       scope |-> UserScope(args.scope)]
       IN /\ remote' = [NotRemote EXCEPT !.kind = "set_user", !.pc = "sent",
                                         !.headers = headers]
          /\ reqs' = <<[method |-> "POST", url |-> AdminUrl(args.server),
                        auth |-> headers.auth, content_type |-> headers.content_type,
                        body |-> payload, call |-> 0]>>
    /\ UNCHANGED <<args, zipped, unpub, manifest, net, installVars, publishVars>>

(* Command::DeleteRemoteUser, main.rs lines 311-313, and                   *)
(* remove_remote_user lines 224-237: the DELETE                            *)
RemoveRemoteUser ==
    /\ cmd.kind = "idle"
    /\ remote.pc = "idle"
    /\ args.admin_user # NONE
    /\ cmd' = [Idle EXCEPT !.kind = "delete-remote-user"]
    /\ LET headers == AdminHeaders(args.admin_user, args.admin_pass)
       IN /\ remote' = [NotRemote EXCEPT !.kind = "remove_user", !.pc = "sent",
                                         !.headers = headers]
          /\ reqs' = <<[method |-> "DELETE", url |-> AdminUrl(args.server),
                        auth |-> headers.auth, content_type |-> headers.content_type,
                        body |-> [username |-> args.username], call |-> 0]>>
    /\ UNCHANGED <<args, zipped, unpub, manifest, net, installVars, publishVars>>

(* lines 208-219 and 239-250: the text of the response is printed *)
AdminResponse ==
    /\ remote.pc = "sent"
    /\ remote.kind \in {"set_user", "remove_user"}
    /\ LET res == Serve(AdminUrl(args.server))
       IN remote' = [remote EXCEPT
             !.pc = "done",
             !.outcome = IF ~SendOk(res) THEN "error"
                         ELSE IF ~BytesOk(res) THEN "success, but non-textual response"
                         ELSE "text"]
    /\ UNCHANGED <<args, zipped, unpub, manifest, net, installVars, cmd, reqs,
                   publishVars>>

(* the process ends when the admin call has returned *)
CliAdminExit ==
    /\ cmd.kind \in {"set-remote-user", "delete-remote-user"}
    /\ remote.pc = "done"
    /\ cmd' = Idle
    /\ remote' = NotRemote
    /\ reqs' = <<>>
    /\ UNCHANGED <<args, zipped, unpub, manifest, net, installVars, publishVars>>

(* The user record of the server: the permissions a value stands for,      *)
(* read = 1, write = 2, delete = 4, exec = 8.                              *)
Bit(perms, k) == (perms \div (2 ^ k)) % 2

Decompose(perms) ==
    {name \in {"read", "write", "delete", "exec"} :
        Bit(perms, CASE name = "read" -> 0 [] name = "write" -> 1
                     [] name = "delete" -> 2 [] name = "exec" -> 3) = 1}

-----------------------------------------------------------------------------
(* The command line, main.rs. *)

(* Command::Add, main.rs lines 275-281 *)
CliAdd(package, registry, username, password) ==
    /\ cmd.kind = "idle"
    /\ cmd' = [kind |-> "add", pkg |-> package, registry |-> registry,
               username |-> username, password |-> password,
               repeat |-> (last = <<"add", package, registry>>),
               fs0 |-> fs]
    /\ calls' = <<Call(package, registry, FALSE, username, password, 0, 0)>>
    /\ reqs' = <<>>
    /\ UNCHANGED <<remoteVars, manifest, net, fs, last, publishVars>>

(* the process of Command::Add ends when the first call has returned *)
CliAddExit ==
    /\ cmd.kind = "add"
    /\ calls[1].pc = "done"
    /\ cmd' = Idle
    /\ last' = <<"add", cmd.pkg, cmd.registry>>
    /\ calls' = <<>>
    /\ reqs' = <<>>
    /\ UNCHANGED <<remoteVars, manifest, net, fs, publishVars>>

(* remove_package, add.rs lines 25-28, and Command::Remove, main.rs 282-288 *)
RemovePackage(pkg_dir_path) ==
    /\ cmd.kind = "idle"
    /\ LET path == StofDir \o TrimStartMatches(pkg_dir_path, "@")
       IN /\ fs' = RemoveDirAll(fs, path)
          /\ last' = <<"remove", pkg_dir_path,
                       IF PathExists(fs, path) THEN "removed" ELSE "failed to remove">>
    /\ UNCHANGED <<remoteVars, manifest, net, cmd, calls, reqs, publishVars>>

NoPath == [kind |-> "none", ext |-> NONE, readable |-> FALSE, content |-> NONE]

(* no argument given *)
NoArgs == [username |-> NONE, password |-> NONE, on |-> NONE,
           parse_local |-> FALSE, path |-> NoPath,
           server |-> <<>>, admin_user |-> NONE, admin_pass |-> NONE,
           perms |-> <<>>, scope |-> NONE]

NoArchive == <<>>

-----------------------------------------------------------------------------
(* The workspaces and registries the model is run on. *)

PkgA == <<"@", "a">>
PkgAB == <<"@", "a", "/", "b">>
PkgC == <<"@", "c">>
PkgAtC == <<"@", "@", "c">>
Packages == {PkgA, PkgAB, PkgC, PkgAtC}

Url1 == <<"https://r1">>
Url2 == <<"https://r2">>
RegistryArgs == {NONE, "main", "alt"}
Usernames == {NONE, "user"}
Passwords == {NONE, "pass"}

Reg(name, url, default) ==
    [name |-> name, isObject |-> TRUE, default |-> default,
     hasUrl |-> TRUE, url |-> url]
RegNoUrl(name, default) ==
    [name |-> name, isObject |-> TRUE, default |-> default,
     hasUrl |-> FALSE, url |-> <<>>]
NotObject(name, default) ==
    [name |-> name, isObject |-> FALSE, default |-> default,
     hasUrl |-> FALSE, url |-> <<>>]

DepStr(name) ==
    [kind |-> "str", hasName |-> TRUE, name |-> name,
     hasRegistry |-> FALSE, registry |-> NONE]
DepObj(name, registry) ==
    [kind |-> "obj", hasName |-> TRUE, name |-> name,
     hasRegistry |-> TRUE, registry |-> registry]
DepObjNoRegistry(name) ==
    [kind |-> "obj", hasName |-> TRUE, name |-> name,
     hasRegistry |-> FALSE, registry |-> NONE]
DepObjNoName(registry) ==
    [kind |-> "obj", hasName |-> FALSE, name |-> <<>>,
     hasRegistry |-> TRUE, registry |-> registry]
DepOther ==
    [kind |-> "other", hasName |-> FALSE, name |-> <<>>,
     hasRegistry |-> FALSE, registry |-> NONE]

File == [kind |-> "file", man |-> NoManifest]
ManifestFile(hasDeps, isArray, deps) ==
    [kind |-> "file",
     man |-> [ok |-> TRUE, hasDeps |-> hasDeps, isArray |-> isArray, deps |-> deps,
              regs |-> <<>>]]
Ok(archive) == [kind |-> "ok", archive |-> archive]
Failed(kind) == [kind |-> kind, archive |-> <<>>]
WithDeps(deps, file) ==
    Ok((<<"pkg.stof">> :> ManifestFile(TRUE, TRUE, deps)) @@ (<<file>> :> File))

(* an archive whose pkg.stof has registries of its own *)
WithRegistries(deps, file, regs) ==
    Ok((<<"pkg.stof">> :> [ManifestFile(TRUE, TRUE, deps) EXCEPT !.man.regs = regs])
          @@ (<<file>> :> File))

Workspace(ok, regs) ==
    [ok |-> ok, regs |-> regs, hasName |-> FALSE, name |-> <<>>,
     publishIsArray |-> FALSE, publish |-> <<>>,
     include |-> NoField, exclude |-> NoField]

(* one registry; @a needs @c and @a/b, @c needs @a/b *)
WorldDiamond ==
    [manifest |-> Workspace(TRUE, <<Reg("main", Url1, FALSE)>>),
     net |-> (RegistryUrl(Url1, <<"a">>) :> WithDeps(<<DepStr(PkgC), DepStr(PkgAB)>>, "x"))
          @@ (RegistryUrl(Url1, <<"a", "/", "b">>) :> WithDeps(<<>>, "y"))
          @@ (RegistryUrl(Url1, <<"c">>) :> WithDeps(<<DepStr(PkgAB)>>, "z"))]

(* one registry; @a needs @c and @c needs @a *)
WorldCycle ==
    [manifest |-> Workspace(TRUE, <<Reg("main", Url1, TRUE)>>),
     net |-> (RegistryUrl(Url1, <<"a">>) :> WithDeps(<<DepStr(PkgC)>>, "x"))
          @@ (RegistryUrl(Url1, <<"c">>) :> WithDeps(<<DepStr(PkgA)>>, "z"))
          @@ (RegistryUrl(Url1, <<"a", "/", "b">>)
                :> Ok(<<"pkg.stof">> :> ManifestFile(FALSE, FALSE, <<>>)))]

(* two registries, the second tagged default; dependencies given as objects *)
WorldTwoRegistries ==
    [manifest |-> Workspace(TRUE, <<Reg("main", Url1, FALSE), Reg("alt", Url2, TRUE)>>),
     net |-> (RegistryUrl(Url2, <<"a">>)
                :> WithRegistries(<<DepObj(PkgC, "main"), DepObjNoRegistry(PkgAB),
                                    DepObjNoName("main"), DepOther,
                                    DepObj(PkgAtC, "nowhere")>>, "x",
                                  <<Reg("nowhere", Url1, TRUE)>>))
          @@ (RegistryUrl(Url1, <<"c">>) :> Ok(<<"z">> :> File))
          @@ (RegistryUrl(Url2, <<"c">>)
                :> Ok(<<"pkg.stof">> :> ManifestFile(TRUE, FALSE, <<DepStr(PkgA)>>)))
          @@ (RegistryUrl(Url2, <<"a", "/", "b">>) :> Failed("not_success"))
          @@ (RegistryUrl(Url1, <<"a">>) :> Failed("transport_error"))]

(* a field that is no object, a registry without url, and a registry whose *)
(* downloads partly fail                                                   *)
WorldFailures ==
    [manifest |-> Workspace(TRUE, <<NotObject("alt", TRUE), RegNoUrl("nourl", FALSE),
                                    Reg("main", Url1, FALSE)>>),
     net |-> (RegistryUrl(Url1, <<"a">>)
                :> WithDeps(<<DepObj(PkgC, "main"), DepStr(PkgAB),
                              DepObj(PkgAB, "main")>>, "x"))
          @@ (RegistryUrl(Url1, <<"c">>) :> Failed("bytes_error"))
          @@ (RegistryUrl(Url1, <<"a", "/", "b">>) :> WithDeps(<<>>, "y"))]

(* no pkg.stof in the workspace *)
WorldNoManifest ==
    [manifest |-> Workspace(FALSE, <<>>),
     net |-> (RegistryUrl(Url1, <<"a">>) :> WithDeps(<<>>, "x"))]

(* a pkg.stof whose registries hold no object *)
WorldNoRegistry ==
    [manifest |-> Workspace(TRUE, <<NotObject("main", TRUE)>>),
     net |-> (RegistryUrl(Url1, <<"a">>) :> WithDeps(<<>>, "x"))]

Worlds == {WorldDiamond, WorldCycle, WorldTwoRegistries, WorldFailures,
           WorldNoManifest, WorldNoRegistry}

-----------------------------------------------------------------------------
Init ==
    /\ \E w \in Worlds : manifest = w.manifest /\ net = w.net
    /\ fs = <<>>
    /\ cmd = Idle
    /\ calls = <<>>
    /\ reqs = <<>>
    /\ last = <<"none", <<>>, NONE>>
    /\ zip = "ok"
    /\ tmp = FALSE
    /\ pub = NotPublishing
    /\ tasks = <<>>
    /\ lock = 0
    /\ args = NoArgs
    /\ zipped = NoArchive
    /\ unpub = NotUnpublishing
    /\ remote = NotRemote

Next ==
    \/ \E package \in Packages, registry \in RegistryArgs,
          username \in Usernames, password \in Passwords :
            CliAdd(package, registry, username, password)
    \/ \E i \in 1..Len(calls) : AddPackageStart(i)
    \/ \E i \in 1..Len(calls) : AddPackageResponse(i)
    \/ \E i \in 1..Len(calls) : AddDependenciesNext(i)
    \/ CliAddExit
    \/ \E package \in Packages : RemovePackage(package)

Spec == Init /\ [][Next]_vars

(* The workspaces the registry resolution is run on: every root.registries *)
(* of up to MaxRegistries fields named a, b, .. in this order, each an     *)
(* object with a url, an object without one or no object, tagged default   *)
(* or not.  These registries serve no package.                             *)
RegistryNames == <<"a", "b", "c", "d", "e">>

RegistryFields(k) ==
    LET name == RegistryNames[k]
    IN UNION {{Reg(name, <<"https://", name>>, d), RegNoUrl(name, d), NotObject(name, d)} :
                d \in BOOLEAN}

RECURSIVE RegistryLists(_)
RegistryLists(n) ==
    IF n = 0 THEN {<<>>}
    ELSE LET shorter == RegistryLists(n - 1)
         IN shorter \cup {Append(regs, f) :
                              regs \in {l \in shorter : Len(l) = n - 1},
                              f \in RegistryFields(n)}

InitResolve ==
    /\ \E regs \in RegistryLists(MaxRegistries) : manifest = Workspace(TRUE, regs)
    /\ net = <<>>
    /\ fs = <<>>
    /\ cmd = Idle
    /\ calls = <<>>
    /\ reqs = <<>>
    /\ last = <<"none", <<>>, NONE>>
    /\ zip = "ok"
    /\ tmp = FALSE
    /\ pub = NotPublishing
    /\ tasks = <<>>
    /\ lock = 0
    /\ args = NoArgs
    /\ zipped = NoArchive
    /\ unpub = NotUnpublishing
    /\ remote = NotRemote

NextResolve ==
    \/ \E registry \in {NONE, "b"} : CliAdd(PkgAB, registry, NONE, NONE)
    \/ \E i \in 1..Len(calls) : AddPackageStart(i)
    \/ \E i \in 1..Len(calls) : AddPackageResponse(i)
    \/ CliAddExit

SpecResolve == InitResolve /\ [][NextResolve]_vars

(* The packages that are published: every root.publish of up to           *)
(* MaxPublish entries, each a registry with a url, a registry with an      *)
(* empty url, a registry without url or a value that is no object; and     *)
(* registries that answer a PUT with success, with a status 500, with a    *)
(* transport error or with a body that cannot be read.                     *)
Url3 == <<"https://r3">>
PkgP == <<"@", "p">>

PublishEntries ==
    {Reg("r1", Url1, FALSE), Reg("r2", Url2, FALSE), Reg("r3", Url3, FALSE),
     Reg("r4", <<>>, FALSE), RegNoUrl("r5", FALSE), NotObject("r6", FALSE)}

RECURSIVE PublishLists(_)
PublishLists(n) ==
    IF n = 0 THEN {<<>>}
    ELSE LET shorter == PublishLists(n - 1)
         IN shorter \cup {Append(l, entry) :
                              l \in {x \in shorter : Len(x) = n - 1},
                              entry \in PublishEntries}

Package(hasName, name, publishIsArray, publish) ==
    [ok |-> TRUE, regs |-> <<>>, hasName |-> hasName, name |-> name,
     publishIsArray |-> publishIsArray, publish |-> publish,
     include |-> NoField, exclude |-> NoField]

PutAnswers(a1, a2, a3) ==
    (RegistryUrl(Url1, <<"p">>) :> Failed(a1))
        @@ (RegistryUrl(Url2, <<"p">>) :> Failed(a2))
        @@ (RegistryUrl(Url3, <<"p">>) :> Failed(a3))

PutWorlds ==
    {PutAnswers("ok", "ok", "ok"),
     PutAnswers("ok", "not_success", "ok"),
     PutAnswers("transport_error", "bytes_error", "ok")}

InitPublish ==
    /\ \/ /\ \E publish \in PublishLists(MaxPublish) :
                manifest = Package(TRUE, PkgP, TRUE, publish)
          /\ zip = "ok"
       \/ /\ manifest = Package(TRUE, PkgP, TRUE,
                                <<Reg("r1", Url1, FALSE), Reg("r2", Url2, FALSE)>>)
          /\ zip \in {"fail", "unreadable", "empty"}
       \/ /\ manifest \in
                {Workspace(FALSE, <<>>),
                 Package(FALSE, <<>>, TRUE, <<Reg("r1", Url1, FALSE)>>),
                 Package(TRUE, <<"@">>, TRUE, <<Reg("r1", Url1, FALSE)>>),
                 Package(TRUE, PkgP, FALSE, <<Reg("r1", Url1, FALSE)>>)}
          /\ zip = "ok"
    /\ net \in PutWorlds
    /\ fs = <<>>
    /\ cmd = Idle
    /\ calls = <<>>
    /\ reqs = <<>>
    /\ last = <<"none", <<>>, NONE>>
    /\ tmp = FALSE
    /\ pub = NotPublishing
    /\ tasks = <<>>
    /\ lock = 0
    /\ args = NoArgs
    /\ zipped = NoArchive
    /\ unpub = NotUnpublishing
    /\ remote = NotRemote

NextPublish ==
    \/ PublishPackage
    \/ PublishSpawn
    \/ \E t \in 1..Len(tasks) : TaskLock(t)
    \/ \E t \in 1..Len(tasks) : TaskSend(t)
    \/ \E t \in 1..Len(tasks) : TaskResponse(t)
    \/ \E t \in 1..Len(tasks) : JoinNext(t)
    \/ PublishJoined
    \/ CliPublishExit
    \/ UnpublishPackage
    \/ UnpublishNext
    \/ \E i \in 1..Len(unpub.registries) : UnpublishResponse(i)
    \/ CliUnpublishExit

SpecPublish == InitPublish /\ [][NextPublish]_vars

(* A package directory that is installed into, published, unpublished and  *)
(* run remotely: its manifest with or without exclude and include, its     *)
(* files, the outcomes of building and reading the temporary archive, the   *)
(* arguments of the command line and the answers of the server.            *)
Srv == <<"https://srv">>

Str(str) == [isString |-> TRUE, str |-> str]
NotStr == [isString |-> FALSE, str |-> NONE]
Field(kind, vals) == [kind |-> kind, vals |-> vals]

DirPath == [kind |-> "dir", ext |-> NONE, readable |-> FALSE, content |-> NONE]
FilePath(ext, readable, content) ==
    [kind |-> "file", ext |-> ext, readable |-> readable, content |-> content]

Func(name, local, fails, defines) ==
    [name |-> name, local |-> local, fails |-> fails, defines |-> defines]

RunAnswer(kind, hasContentType, content_type, decodes, hasMain, hasText, funcs) ==
    [kind |-> kind, archive |-> <<>>, hasContentType |-> hasContentType,
     content_type |-> content_type, decodes |-> decodes, hasMain |-> hasMain,
     hasText |-> hasText, funcs |-> funcs]

Funcs ==
    <<Func("f1", TRUE, FALSE, "f5"), Func("f2", FALSE, FALSE, NONE),
      Func("f3", TRUE, TRUE, NONE), Func("f4", TRUE, FALSE, NONE)>>

RunAnswers ==
    {RunAnswer("ok", TRUE, "text", TRUE, TRUE, TRUE, Funcs),
     RunAnswer("not_success", FALSE, NONE, TRUE, TRUE, FALSE, Funcs),
     RunAnswer("ok", TRUE, "json", TRUE, FALSE, FALSE, Funcs),
     RunAnswer("ok", TRUE, "json", FALSE, TRUE, FALSE, Funcs),
     RunAnswer("transport_error", FALSE, NONE, FALSE, FALSE, FALSE, <<>>),
     RunAnswer("bytes_error", TRUE, "text", FALSE, FALSE, FALSE, <<>>)}

PackageFiles ==
    (<<"src">> :> Dir) @@ (<<"src", "/", "main.stof">> :> File)
        @@ (<<"secret.txt">> :> File)
        @@ (<<"build">> :> Dir) @@ (<<"build", "/", "out.bin">> :> File)

Main == <<Reg("main", Url1, FALSE)>>
Targets == <<Reg("r1", Url1, FALSE), Reg("r2", Url2, FALSE)>>

PackageManifests ==
    {[Package(TRUE, PkgP, TRUE, Targets) EXCEPT
         !.regs = Main,
         !.exclude = Field("array", <<Str("secret.txt"), NotStr>>)],
     [Package(TRUE, PkgP, TRUE, Targets) EXCEPT
         !.regs = Main,
         !.include = Field("array", <<Str("build")>>),
         !.exclude = Field("set", <<Str("build")>>)],
     [Package(TRUE, PkgP, TRUE, Targets) EXCEPT
         !.regs = Main,
         !.exclude = Field("other", <<Str("secret.txt")>>)],
     Workspace(FALSE, <<>>)}

RunArgs ==
    {[NoArgs EXCEPT !.on = Srv, !.path = path, !.username = c[1], !.password = c[2]] :
        path \in {DirPath, FilePath("stof", TRUE, "source"),
                  FilePath(NONE, TRUE, "source"), FilePath("json", FALSE, NONE),
                  NoPath},
        c \in {<<NONE, NONE>>, <<"user", "pass">>, <<"user", NONE>>}}
    \cup
    {[NoArgs EXCEPT !.on = Srv, !.parse_local = TRUE,
                   !.path = FilePath("stof", TRUE, "source"),
                   !.username = c[1], !.password = c[2]] :
        c \in {<<NONE, NONE>>, <<"user", "pass">>}}

InitPackage ==
    /\ manifest \in PackageManifests
    /\ zip \in {"ok", "fail", "unreadable", "empty"}
    /\ args \in RunArgs
    /\ \E answer \in RunAnswers :
          net \in {puts @@ (RunUrl(Srv) :> answer)
                      @@ (RegistryUrl(Url1, <<"a">>) :> WithDeps(<<>>, "x")) :
                         puts \in PutWorlds}
    /\ fs = PackageFiles
    /\ cmd = Idle
    /\ calls = <<>>
    /\ reqs = <<>>
    /\ last = <<"none", <<>>, NONE>>
    /\ tmp = FALSE
    /\ pub = NotPublishing
    /\ tasks = <<>>
    /\ lock = 0
    /\ zipped = NoArchive
    /\ unpub = NotUnpublishing
    /\ remote = NotRemote

NextRun ==
    \/ RemoteExec
    \/ RemoteRead
    \/ RemotePost
    \/ RemoteExecDoc
    \/ RemoteResponse
    \/ RemoteCall
    \/ CliRunExit

NextPackage ==
    \/ CliAdd(PkgA, NONE, NONE, NONE)
    \/ \E i \in 1..Len(calls) : AddPackageStart(i)
    \/ \E i \in 1..Len(calls) : AddPackageResponse(i)
    \/ \E i \in 1..Len(calls) : AddDependenciesNext(i)
    \/ CliAddExit
    \/ NextPublish
    \/ NextRun

SpecPackage == InitPackage /\ [][NextPackage]_vars

(* The admin commands: a user set with every permission value of four     *)
(* bits or with none given, or removed, and a server that answers with a   *)
(* text, without one or not at all.                                        *)
AdminArgs ==
    {[NoArgs EXCEPT !.server = Srv, !.admin_user = "admin", !.admin_pass = "secret",
                   !.username = "user", !.password = "pass",
                   !.perms = perms, !.scope = scope] :
        perms \in {<<>>} \cup {<<p>> : p \in 0..15},
        scope \in {NONE, "formata"}}

InitAdmin ==
    /\ args \in AdminArgs
    /\ \E kind \in {"ok", "transport_error", "bytes_error"} :
          net = (AdminUrl(Srv) :> Failed(kind))
    /\ manifest = Workspace(FALSE, <<>>)
    /\ fs = <<>>
    /\ cmd = Idle
    /\ calls = <<>>
    /\ reqs = <<>>
    /\ last = <<"none", <<>>, NONE>>
    /\ zip = "ok"
    /\ tmp = FALSE
    /\ pub = NotPublishing
    /\ tasks = <<>>
    /\ lock = 0
    /\ zipped = NoArchive
    /\ unpub = NotUnpublishing
    /\ remote = NotRemote

NextAdmin ==
    \/ SetRemoteUser
    \/ RemoveRemoteUser
    \/ AdminResponse
    \/ CliAdminExit

SpecAdmin == InitAdmin /\ [][NextAdmin]_vars

(* the steps of a running install; the runtime polls the future of         *)
(* add_package until it is ready and every request ends in a response or   *)
(* an error                                                                *)
InstallStep ==
    \E i \in 1..Len(calls) :
        AddPackageStart(i) \/ AddPackageResponse(i) \/ AddDependenciesNext(i)

FairSpec == Spec /\ WF_vars(InstallStep)

-----------------------------------------------------------------------------
(* Definitions the properties are stated with. *)

(* call i is an ancestor of call j *)
RECURSIVE IsAncestor(_, _)
IsAncestor(i, j) ==
    IF j = 0 THEN FALSE
    ELSE IF calls[j].parent = i THEN TRUE
    ELSE IsAncestor(i, calls[j].parent)

(* the name without its leading "@"s, said without recursion *)
Stripped(name) ==
    LET k == CHOOSE n \in 0..Len(name) :
                 /\ \A j \in 1..n : name[j] = "@"
                 /\ n < Len(name) => name[n + 1] # "@"
    IN SubSeq(name, k + 1, Len(name))

(* the dependency graph as the registries serve it: a node is a package    *)
(* name and the registry asked for it                                      *)
NodeResponse(node) ==
    LET reg == ResolveRegistry(manifest.regs, node[2])
    IN IF ~manifest.ok \/ reg = NoReg \/ ~reg.hasUrl
       THEN NotFound
       ELSE Serve(RegistryUrl(reg.url, Stripped(node[1])))

NodeDeps(node) ==
    LET res == NodeResponse(node)
        man == IF res.kind = "ok" /\ <<"pkg.stof">> \in DOMAIN res.archive
               THEN res.archive[<<"pkg.stof">>].man
               ELSE NoManifest
    IN IF man.ok /\ man.hasDeps /\ man.isArray THEN man.deps ELSE <<>>

Successors(node) ==
    LET vals == NodeDeps(node)
    IN {<<vals[k].name, IF vals[k].kind = "obj" /\ vals[k].hasRegistry
                        THEN vals[k].registry ELSE NONE>> :
            k \in {n \in 1..Len(vals) :
                     vals[n].kind = "str" \/ (vals[n].kind = "obj" /\ vals[n].hasName)}}

RECURSIVE Closure(_)
Closure(nodes) ==
    LET more == nodes \cup UNION {Successors(n) : n \in nodes}
    IN IF more = nodes THEN nodes ELSE Closure(more)

(* a cycle can be reached from node; the downloads on it succeed, as only  *)
(* a served package has successors                                         *)
Cyclic(node) == \E n \in Closure({node}) : n \in Closure(Successors(n))

Root == <<cmd.pkg, cmd.registry>>

-----------------------------------------------------------------------------
(* C1: the dependencies of an installed package are installed one after    *)
(* another in the order of its dependencies array: whenever a call exists, *)
(* every earlier call that has not returned is one of its ancestors (so    *)
(* the install of an earlier sibling, with everything below it, is over    *)
(* before the next sibling is called and sends its GET), the children of   *)
(* a call are made in the order of the entries, and the GETs are sent in   *)
(* the order of the calls.                                                 *)
C1_SequentialInstall ==
    /\ \A j \in 1..Len(calls) : \A i \in 1..(j - 1) :
          calls[i].pc # "done" => IsAncestor(i, j)
    /\ \A j \in 1..Len(calls) : \A i \in 1..(j - 1) :
          calls[i].parent = calls[j].parent => calls[i].depIdx < calls[j].depIdx
    /\ \A l \in 1..Len(reqs) : \A k \in 1..(l - 1) : reqs[k].call < reqs[l].call

(* a second dependency has sent its GET after the first one was installed  *)
(* together with a dependency of its own                                   *)
C1_Witness ==
    \E i, k, j \in 1..Len(calls) :
        /\ i < k /\ k < j
        /\ calls[i].parent = calls[j].parent
        /\ calls[k].parent = i
        /\ calls[k].outcome = "added dependency"
        /\ calls[j].pc = "get"

-----------------------------------------------------------------------------
(* C2: no cycle detection.  An install whose dependency graph has no cycle *)
(* returns; an install whose graph has a cycle of successful downloads     *)
(* never returns, and goes on calling add_package as far as the model lets *)
(* it.                                                                     *)
C2_NoCycleDetection ==
    /\ [](cmd.kind = "add" /\ calls[1].pc = "done" => ~Cyclic(Root))
    /\ (cmd.kind = "add" /\ ~Cyclic(Root)) ~> (cmd.kind = "add" /\ calls[1].pc = "done")
    /\ (cmd.kind = "add" /\ Cyclic(Root)) ~> (Len(calls) = MaxCalls)

(* an install with a cycle has called add_package for its first package a  *)
(* second time                                                             *)
C2_Witness ==
    /\ cmd.kind = "add"
    /\ Cyclic(Root)
    /\ \E j \in 2..Len(calls) :
          /\ calls[j].download_pkg = calls[1].download_pkg
          /\ calls[j].pc = "deps"

(* an install of a package with dependencies and no cycle has returned *)
C2_WitnessAcyclic ==
    /\ cmd.kind = "add"
    /\ ~Cyclic(Root)
    /\ Len(calls) >= 4
    /\ calls[1].outcome = "added"

-----------------------------------------------------------------------------
(* C6: an install called with a registry name uses the registry object     *)
(* stored under that name and no other: its GET goes to the url of that    *)
(* object, and when the manifest holds no object under the name the call   *)
(* returns "registry not found" without sending a request.                 *)
NamedObjects(reg_name) ==
    {k \in 1..Len(manifest.regs) :
        manifest.regs[k].name = reg_name /\ manifest.regs[k].isObject}

C6_NamedRegistryOnly ==
    \A i \in 1..Len(calls) :
        (manifest.ok /\ calls[i].registry # NONE) =>
            IF NamedObjects(calls[i].registry) = {}
            THEN /\ calls[i].pc \in {"start", "done"}
                 /\ calls[i].pc = "done" => calls[i].outcome = "registry not found"
                 /\ \A r \in 1..Len(reqs) : reqs[r].call # i
            ELSE \A r \in 1..Len(reqs) : reqs[r].call = i =>
                    \E k \in NamedObjects(calls[i].registry) :
                        /\ manifest.regs[k].hasUrl
                        /\ reqs[r].url = manifest.regs[k].url \o <<"/registry/">>
                                            \o Stripped(calls[i].download_pkg)

(* a call naming a registry the manifest does not hold has returned, in a  *)
(* workspace whose default registry could have served it                   *)
C6_Witness ==
    \E i \in 1..Len(calls) :
        /\ calls[i].registry = "alt"
        /\ calls[i].outcome = "registry not found"
        /\ reqs = <<>>
        /\ \E k \in 1..Len(manifest.regs) :
              manifest.regs[k].isObject /\ manifest.regs[k].hasUrl

-----------------------------------------------------------------------------
(* C7: a call that aborts leaves no partial state.  The cause of an abort  *)
(* is fixed by the workspace manifest and by what the registry answers; a  *)
(* call with such a cause never gets past its GET, extracts nothing, calls *)
(* no add_package for dependencies, returns with the file system as it was *)
(* when it was called, and sends no request at all when the manifest, the  *)
(* registry or its url is missing.                                         *)
AbortCause(c) ==
    LET reg == ResolveRegistry(manifest.regs, c.registry)
        res == Serve(RegistryUrl(reg.url, Stripped(c.download_pkg)))
    IN IF ~manifest.ok THEN "pkg.stof file not found"
       ELSE IF reg = NoReg THEN "registry not found"
       ELSE IF ~reg.hasUrl THEN "registry URL not found"
       ELSE IF res.kind = "transport_error" THEN "add send error"
       ELSE IF res.kind = "not_success" THEN "does not exist or not authenticated"
       ELSE IF res.kind = "bytes_error" THEN "could not parse response into bytes"
       ELSE NONE

NoRequestCauses ==
    {"pkg.stof file not found", "registry not found", "registry URL not found"}

C7_AbortState ==
    \A i \in 1..Len(calls) :
        AbortCause(calls[i]) # NONE =>
            /\ calls[i].pc \in {"start", "get", "done"}
            /\ calls[i].pc = "done" => calls[i].outcome = AbortCause(calls[i])
            /\ calls[i].pc # "done" => fs = calls[i].fs0
            /\ \A j \in 1..Len(calls) : calls[j].parent # i
            /\ AbortCause(calls[i]) \in NoRequestCauses =>
                  \A r \in 1..Len(reqs) : reqs[r].call # i

C7_AbortStep ==
    \A i \in 1..Len(calls) :
        (/\ i <= Len(calls')
         /\ calls[i].pc # "done"
         /\ calls'[i].pc = "done"
         /\ AbortCause(calls[i]) # NONE) =>
            /\ fs' = calls[i].fs0
            /\ Len(calls') = Len(calls)
            /\ AbortCause(calls[i]) \in NoRequestCauses => reqs' = reqs

C7_NoPartialState == [](C7_AbortState) /\ [][C7_AbortStep]_vars

(* a dependency whose download could not be read has returned, after its   *)
(* parent was extracted                                                    *)
C7_Witness ==
    \E i \in 1..Len(calls) :
        /\ calls[i].parent # 0
        /\ calls[i].outcome = "could not parse response into bytes"
        /\ fs # <<>>

-----------------------------------------------------------------------------
(* C8: every request of an install is a GET to                             *)
(* <url of the resolved registry>/registry/<name without its leading "@">, *)
(* with a Basic-Auth header exactly when a username and a password were    *)
(* both given; a call sends at most one request, and has sent one once it  *)
(* waits for or has received a response.                                   *)
C8_GetRequest ==
    /\ \A r \in 1..Len(reqs) :
          LET c == calls[reqs[r].call]
              reg == ResolveRegistry(manifest.regs, c.registry)
          IN /\ reqs[r].method = "GET"
             /\ reg.hasUrl
             /\ reqs[r].url = reg.url \o <<"/registry/">> \o Stripped(c.download_pkg)
             /\ (reqs[r].auth # <<>>) <=> (c.username # NONE /\ c.password # NONE)
             /\ reqs[r].auth # <<>> => reqs[r].auth = <<"Basic", c.username, c.password>>
    /\ \A i \in 1..Len(calls) :
          LET sent == {r \in 1..Len(reqs) : reqs[r].call = i}
          IN /\ Cardinality(sent) <= 1
             /\ calls[i].pc \in {"get", "deps"} => Cardinality(sent) = 1

(* @a/b was asked from the default registry by a caller that gave a user   *)
(* name and no password: GET https://r1/registry/a/b without a header      *)
C8_Witness ==
    \E r \in 1..Len(reqs) :
        /\ reqs[r].url = <<"https://r1", "/registry/", "a", "/", "b">>
        /\ reqs[r].auth = <<>>
        /\ calls[reqs[r].call].registry = NONE
        /\ calls[reqs[r].call].username # NONE

-----------------------------------------------------------------------------
(* C9: installing the same package from the same registry twice in a row   *)
(* leaves the files as the first install left them.                        *)
C9_IdempotentInstall ==
    (cmd.kind = "add" /\ cmd.repeat /\ calls[1].pc = "done") => fs = cmd.fs0

(* the second of two successive installs of a package with dependencies    *)
(* has returned, and its files were installed                              *)
C9_Witness ==
    /\ cmd.kind = "add"
    /\ cmd.repeat
    /\ calls[1].outcome = "added"
    /\ Len(calls) >= 3
    /\ PathExists(fs, InstallDir(cmd.pkg))

-----------------------------------------------------------------------------
(* C10: each entry of the dependencies of an installed package is passed   *)
(* on as the code says: a string is installed with no registry, an object  *)
(* with a name is installed with its registry field when it has one and    *)
(* with no registry otherwise; the call is marked as a dependency, gets    *)
(* the caller's username and password, and resolves the registry it was    *)
(* given; and no such entry is left out.                                   *)
EntryRegistry(val) ==
    IF val.kind = "obj" /\ val.hasRegistry THEN val.registry ELSE NONE

EntryInstalled(val) == val.kind = "str" \/ (val.kind = "obj" /\ val.hasName)

C10_DependencyCalls ==
    /\ \A j \in 1..Len(calls) :
          calls[j].parent # 0 =>
              LET p == calls[calls[j].parent]
                  val == p.vals[calls[j].depIdx]
              IN /\ EntryInstalled(val)
                 /\ calls[j].download_pkg = val.name
                 /\ calls[j].registry = EntryRegistry(val)
                 /\ calls[j].dependency
                 /\ calls[j].username = p.username
                 /\ calls[j].password = p.password
                 /\ \A r \in 1..Len(reqs) : reqs[r].call = j =>
                       reqs[r].url =
                           ResolveRegistry(manifest.regs, EntryRegistry(val)).url
                               \o <<"/registry/">> \o Stripped(val.name)
    /\ \A i \in 1..Len(calls) : \A k \in 1..(calls[i].next - 1) :
          EntryInstalled(calls[i].vals[k]) =>
              \E j \in 1..Len(calls) : calls[j].parent = i /\ calls[j].depIdx = k

(* the entry {name: "@c", registry: "main"} of a package has been asked    *)
(* from the registry main, in a workspace whose default registry is alt    *)
C10_Witness ==
    \E j \in 1..Len(calls) :
        /\ calls[j].parent # 0
        /\ calls[j].registry = "main"
        /\ ResolveRegistry(manifest.regs, NONE).name = "alt"
        /\ calls[j].username # NONE
        /\ \E r \in 1..Len(reqs) :
              reqs[r].call = j /\ reqs[r].url = <<"https://r1", "/registry/", "c">>

-----------------------------------------------------------------------------
(* C5: an install called without a registry name takes the first registry  *)
(* object of the manifest unless a later one is tagged default, and then   *)
(* the last one tagged default; with no registry object it returns         *)
(* "registry not found".  The request goes to the url of that registry.    *)
IsRegistryObject(field) == field.isObject

RegistryObjects == SelectSeq(manifest.regs, IsRegistryObject)

LaterDefaults == {k \in 2..Len(RegistryObjects) : RegistryObjects[k].default}

ExpectedDefault ==
    IF LaterDefaults = {} THEN RegistryObjects[1]
    ELSE RegistryObjects[CHOOSE k \in LaterDefaults : \A l \in LaterDefaults : l <= k]

C5_DefaultSelection ==
    \A i \in 1..Len(calls) :
        (manifest.ok /\ calls[i].registry = NONE) =>
            IF RegistryObjects = <<>>
            THEN /\ calls[i].pc \in {"start", "done"}
                 /\ calls[i].pc = "done" => calls[i].outcome = "registry not found"
                 /\ reqs = <<>>
            ELSE IF ~ExpectedDefault.hasUrl
            THEN /\ calls[i].pc \in {"start", "done"}
                 /\ calls[i].pc = "done" => calls[i].outcome = "registry URL not found"
                 /\ reqs = <<>>
            ELSE calls[i].pc # "start" =>
                    /\ Len(reqs) = 1
                    /\ reqs[1].url = ExpectedDefault.url \o <<"/registry/">>
                                        \o Stripped(calls[i].download_pkg)

(* registries a, b, c with b and c tagged default: the request went to c *)
C5_Witness ==
    /\ Len(manifest.regs) = 3
    /\ \A k \in 1..3 : manifest.regs[k].isObject /\ manifest.regs[k].hasUrl
    /\ ~manifest.regs[1].default /\ manifest.regs[2].default /\ manifest.regs[3].default
    /\ Len(calls) = 1
    /\ calls[1].registry = NONE
    /\ Len(reqs) = 1
    /\ reqs[1].url = <<"https://", "c", "/registry/", "a", "/", "b">>

(* registries a, b, c with only b tagged default: the request went to b *)
C5_WitnessOneDefault ==
    /\ Len(manifest.regs) = 3
    /\ \A k \in 1..3 : manifest.regs[k].isObject /\ manifest.regs[k].hasUrl
    /\ ~manifest.regs[1].default /\ manifest.regs[2].default /\ ~manifest.regs[3].default
    /\ Len(calls) = 1
    /\ calls[1].registry = NONE
    /\ Len(reqs) = 1
    /\ reqs[1].url = <<"https://", "b", "/registry/", "a", "/", "b">>

(* registries a, b, c with none tagged default: the request went to a *)
C5_WitnessNoDefault ==
    /\ Len(manifest.regs) = 3
    /\ \A k \in 1..3 : manifest.regs[k].isObject /\ manifest.regs[k].hasUrl
    /\ \A k \in 1..3 : ~manifest.regs[k].default
    /\ Len(calls) = 1
    /\ calls[1].registry = NONE
    /\ Len(reqs) = 1
    /\ reqs[1].url = <<"https://", "a", "/registry/", "a", "/", "b">>

-----------------------------------------------------------------------------
(* Definitions the properties of publish are stated with. *)

(* the registry references of the publish list *)
References == SelectSeq(manifest.publish, IsRegistryObject)

Puts(t) == {r \in 1..Len(reqs) : reqs[r].method = "PUT" /\ reqs[r].call = t}

(* the reference has a url of at least one character *)
HasUsableUrl(reference) == reference.hasUrl /\ reference.url # <<>>

(* what the registry of a reference answers, as the task reports it *)
OwnOutcome(reference) ==
    LET res == Serve(reference.url \o <<"/registry/">> \o Stripped(manifest.name))
    IN IF res.kind = "transport_error" THEN "publish send error"
       ELSE IF res.kind = "bytes_error" THEN "panic"
       ELSE IF res.kind = "not_success" THEN "text of 500"
       ELSE "text of 200"

-----------------------------------------------------------------------------
(* C3, as claimed: a publish that built its archive has sent exactly one   *)
(* PUT for every registry reference of the publish list.                   *)
C3_OnePutPerReference ==
    (pub.pc = "done" /\ pub.outcome = "publish success" /\ zip = "ok") =>
        /\ Len(reqs) = Len(References)
        /\ \A t \in 1..Len(References) : Cardinality(Puts(t)) = 1

(* C3, amended: a publish whose archive was read and is not empty sends    *)
(* exactly one PUT for every registry reference of the publish list that   *)
(* has a url of at least one character, to <url>/registry/<name without    *)
(* its leading "@">, and none for a reference without such a url, which    *)
(* gets an error message instead.  There is one task per reference, and    *)
(* what a task sends and reports depends on its own registry and on the    *)
(* answer to its own PUT only, whatever the other PUTs come to; when       *)
(* publish returns every task has ended.                                   *)
C3_OnePutPerUsableReference ==
    (/\ pub.pc = "joining" \/ pub.outcome = "publish success"
     /\ zip \in {"ok", "empty"}) =>
        /\ Len(tasks) = Len(References)
        /\ \A t \in 1..Len(tasks) :
              /\ tasks[t].registry = References[t]
              /\ Cardinality(Puts(t)) <= 1
              /\ \A r \in Puts(t) :
                    reqs[r].url = References[t].url \o <<"/registry/">>
                                     \o Stripped(manifest.name)
              /\ tasks[t].pc \in {"sent", "done", "panicked"} =>
                    Cardinality(Puts(t)) =
                        IF zip = "ok" /\ HasUsableUrl(References[t]) THEN 1 ELSE 0
              /\ tasks[t].pc \in {"done", "panicked"} =>
                    tasks[t].outcome =
                        IF zip = "ok" /\ HasUsableUrl(References[t])
                        THEN OwnOutcome(References[t])
                        ELSE "registry URL not found, or package has a size of 0 bytes"
        /\ pub.pc = "done" =>
              \A t \in 1..Len(tasks) : tasks[t].pc \in {"done", "panicked"}

(* three registries of which the second answers 500: all three PUTs were   *)
(* sent and all three answers reported                                     *)
C3_Witness ==
    /\ pub.pc = "done"
    /\ Len(tasks) = 3
    /\ Len(reqs) = 3
    /\ tasks[1].outcome = "text of 200"
    /\ tasks[2].outcome = "text of 500"
    /\ tasks[3].outcome = "text of 200"

-----------------------------------------------------------------------------
(* C4: the join-all barrier.  While publish_package waits in its join loop *)
(* the temporary archive exists; the archive is removed and "publish       *)
(* success" is printed only when every task has ended and has been joined, *)
(* whether it reported a success, an error or panicked; and no task is     *)
(* taken out of the set before it has ended.                               *)
C4_JoinBarrier ==
    /\ pub.pc = "joining" => tmp
    /\ \A t \in 1..Len(tasks) : tasks[t].joined => Finished(tasks[t])
    /\ (pub.pc = "done" /\ pub.outcome = "publish success") =>
          /\ ~tmp
          /\ zip # "unreadable" => Len(tasks) = Len(References)
          /\ \A t \in 1..Len(tasks) : Finished(tasks[t]) /\ tasks[t].joined

(* two uploads are in flight at once after a third has failed, and         *)
(* publish_package is waiting                                              *)
C4_Witness ==
    /\ pub.pc = "joining"
    /\ tmp
    /\ \E t1, t2, t3 \in 1..Len(tasks) :
          /\ t1 # t2
          /\ tasks[t1].pc = "sent"
          /\ tasks[t2].pc = "sent"
          /\ tasks[t3].outcome = "publish send error"
          /\ tasks[t3].joined

(* publish has returned after tasks that failed and a task that succeeded *)
C4_WitnessReturned ==
    /\ pub.pc = "done"
    /\ pub.outcome = "publish success"
    /\ \E t1, t2, t3 \in 1..Len(tasks) :
          /\ tasks[t1].outcome = "publish send error"
          /\ tasks[t2].outcome = "panic"
          /\ tasks[t3].outcome = "text of 200"

-----------------------------------------------------------------------------
(* C11: the temporary archive does not outlive the operation that built    *)
(* it.  When publish_package has returned, whatever it reports and whether *)
(* the archive could be read and the uploads succeeded or not, the file is *)
(* gone; remote_exec has removed the file of a directory before its POST   *)
(* is sent; and between two commands no temporary archive is left.         *)
C11_TempArchiveRemoved ==
    /\ pub.pc = "done" => ~tmp
    /\ remote.pc \in {"ready", "sent", "calling", "done"} => ~tmp
    /\ (\E r \in 1..Len(reqs) : reqs[r].method = "POST") => ~tmp
    /\ cmd.kind = "idle" => ~tmp

(* publish has returned after an upload failed: the archive was built and  *)
(* is gone                                                                 *)
C11_Witness ==
    /\ pub.pc = "done"
    /\ pub.outcome = "publish success"
    /\ zipped # NoArchive
    /\ \E t \in 1..Len(tasks) : tasks[t].outcome \in {"text of 500", "publish send error"}
    /\ ~tmp

(* publish has returned without being able to read the archive it built *)
C11_WitnessUnreadable ==
    /\ pub.pc = "done"
    /\ zip = "unreadable"
    /\ pub.outcome = "publish success"
    /\ ~tmp

(* the POST of a directory has been sent *)
C11_WitnessRun ==
    /\ remote.pc = "sent"
    /\ args.path.kind = "dir"
    /\ Len(reqs) = 1
    /\ reqs[1].body.kind = "pkg"
    /\ ~tmp

-----------------------------------------------------------------------------
(* the manifest was read and has no name left once its leading "@" are     *)
(* taken off, or no registry reference in its publish list                 *)
InvalidManifest ==
    /\ manifest.ok
    /\ \/ ~manifest.hasName
       \/ Stripped(manifest.name) = <<>>
       \/ ~manifest.publishIsArray
       \/ \A k \in 1..Len(manifest.publish) : ~manifest.publish[k].isObject

NotValid == "not a valid name or didn't find any registries"

(* C12: publish and unpublish of a manifest that has no name left after    *)
(* the leading "@" is stripped, or no registry reference in its publish    *)
(* list, abort with the invalid-manifest message: no archive is built, no  *)
(* task is spawned and no PUT or DELETE is sent.  A manifest that has both *)
(* is not turned down with that message.                                   *)
C12_InvalidManifestAborts ==
    /\ (InvalidManifest /\ pub.pc # "idle") =>
          /\ pub.pc = "done"
          /\ pub.outcome = NotValid
          /\ reqs = <<>>
          /\ tasks = <<>>
          /\ ~tmp
          /\ zipped = NoArchive
    /\ (InvalidManifest /\ unpub.pc # "idle") =>
          /\ unpub.pc = "done"
          /\ unpub.outcome = NotValid
          /\ reqs = <<>>
    /\ (manifest.ok /\ ~InvalidManifest) =>
          pub.outcome # NotValid /\ unpub.outcome # NotValid

(* publish has turned down a package whose name is "@" *)
C12_Witness ==
    /\ manifest.name = <<"@">>
    /\ manifest.publish # <<>>
    /\ pub.pc = "done"
    /\ pub.outcome = NotValid

(* unpublish has turned down a publish list that holds no object *)
C12_WitnessUnpublish ==
    /\ manifest.name = PkgP
    /\ Len(manifest.publish) = 2
    /\ unpub.pc = "done"
    /\ unpub.outcome = NotValid

-----------------------------------------------------------------------------
Deletes == {r \in 1..Len(reqs) : reqs[r].method = "DELETE"}

Reported(i) == \E k \in 1..Len(unpub.outcomes) : unpub.outcomes[k][1] = i

C13_WitnessAfterError ==
    /\ unpub.pc = "loop"
    /\ Len(unpub.outcomes) = 1
    /\ unpub.outcomes[1][2] = "unpublish send error"
    /\ Len(reqs) = 2

-----------------------------------------------------------------------------
(* C14: every PUT of a publish and every DELETE of an unpublish carries    *)
(* the Basic-Auth header built from the username and the password of the   *)
(* command line when both are given, and no such header otherwise.         *)
C14_CredentialsSent ==
    \A r \in 1..Len(reqs) :
        reqs[r].method \in {"PUT", "DELETE"} =>
            reqs[r].auth = IF args.username # NONE /\ args.password # NONE
                           THEN <<"Basic", args.username, args.password>>
                           ELSE <<>>

-----------------------------------------------------------------------------
(* the document the server answers with, and the names of the functions of *)
(* its main root that are tagged local, in the order of the document       *)
Answer == Serve(RunUrl(args.on))

LocalNames ==
    IF Answer.hasMain
    THEN LET locals == SelectSeq(Answer.funcs, LAMBDA f : f.local)
         IN [k \in 1..Len(locals) |-> locals[k].name]
    ELSE <<>>

CalledNames == [k \in 1..Len(remote.called) |-> remote.called[k].name]

(* C15: once the response of a remote run is decoded, whatever its content *)
(* type, the functions to call are those of the main root of the decoded   *)
(* document that are tagged local, and this list is fixed before the first *)
(* call: each of them is called once, with no arguments, in the order of   *)
(* the document; a call that fails is followed by the calls that remain;   *)
(* a function that is not tagged local, or that a call has added to the    *)
(* document, is never called; and when the run returns all of them have    *)
(* been called.                                                            *)
C15_LocalFunctionsCalled ==
    /\ remote.pc = "calling" \/ remote.outcome = "returned" =>
          /\ remote.to_call = LocalNames
          /\ Len(CalledNames) <= Len(LocalNames)
          /\ CalledNames = SubSeq(LocalNames, 1, Len(CalledNames))
          /\ \A k \in 1..Len(remote.called) :
                /\ remote.called[k].arguments = <<>>
                /\ \A j \in 1..Len(remote.called) :
                      remote.called[j].name = remote.called[k].name => j = k
                /\ \E f \in 1..Len(Answer.funcs) :
                      /\ Answer.funcs[f].name = remote.called[k].name
                      /\ Answer.funcs[f].local
    /\ remote.outcome = "returned" => CalledNames = LocalNames
    /\ remote.pc \notin {"calling", "done"} => remote.called = <<>>
    /\ (remote.pc = "done" /\ remote.outcome # "returned") => remote.called = <<>>

(* a response without content type: f1, f3 and f4 were called, f3 failed,  *)
(* f1 has added a function tagged local to the document                    *)
C15_Witness ==
    /\ remote.outcome = "returned"
    /\ ~Answer.hasContentType
    /\ CalledNames = <<"f1", "f3", "f4">>
    /\ remote.called[2].result = "Err"
    /\ Len(remote.doc) = 5
    /\ remote.doc[5].local

(* the same after remote_exec_doc, for a response of type text *)
C15_WitnessDoc ==
    /\ remote.kind = "run_doc"
    /\ remote.outcome = "returned"
    /\ Answer.content_type = "text"
    /\ CalledNames = <<"f1", "f3", "f4">>

(* a document without main root: nothing is called *)
C15_WitnessNoMain ==
    /\ remote.outcome = "returned"
    /\ ~Answer.hasMain
    /\ remote.called = <<>>

-----------------------------------------------------------------------------
Posts == {r \in 1..Len(reqs) : reqs[r].method = "POST"}

(* whether remote_exec gets bytes to send: the archive of a directory that *)
(* has a manifest, was built and could be read, or a file that can be read *)
HasBody ==
    \/ args.path.kind = "dir" /\ manifest.ok /\ zip \in {"ok", "empty"}
    \/ args.path.kind = "file" /\ args.path.readable

(* C16: remote_exec sends at most one POST, to <address>/run.  For a       *)
(* directory its content type is "pkg" and its body the temporary archive  *)
(* built of the directory; for a file its content type is the extension of *)
(* the file (none when the file has none) and its body the bytes of the    *)
(* file.  The Basic-Auth header is there if and only if both username and  *)
(* password are given.  When there are bytes the POST is sent exactly      *)
(* once; when there are none no POST is sent.                              *)
C16_RunPost ==
    remote.kind = "run" =>
        /\ reqs = <<>> \/ (Len(reqs) = 1 /\ Posts = {1})
        /\ \A r \in Posts :
              /\ reqs[r].url = args.on \o <<"/run">>
              /\ reqs[r].auth = IF args.username # NONE /\ args.password # NONE
                                THEN <<"Basic", args.username, args.password>>
                                ELSE <<>>
              /\ args.path.kind \in {"dir", "file"}
              /\ args.path.kind = "dir" =>
                    /\ reqs[r].content_type = "pkg"
                    /\ reqs[r].body.kind = "pkg"
                    /\ reqs[r].body.entries = IF zip = "empty" THEN <<>> ELSE zipped
              /\ args.path.kind = "file" =>
                    /\ reqs[r].content_type = args.path.ext
                    /\ reqs[r].body.kind = "file"
                    /\ reqs[r].body.content = args.path.content
        /\ ~HasBody => Posts = {}
        /\ (HasBody /\ remote.pc \in {"sent", "calling", "done"}) => Posts = {1}
        /\ (~HasBody /\ remote.pc = "done") =>
              remote.outcome \in {"package/file contents not found",
                                  "no directory or path found"}

(* the POST of a directory with both credentials *)
C16_Witness ==
    /\ remote.kind = "run"
    /\ args.path.kind = "dir"
    /\ Posts = {1}
    /\ reqs[1].content_type = "pkg"
    /\ reqs[1].auth = <<"Basic", "user", "pass">>
    /\ <<"src", "/", "main.stof">> \in DOMAIN reqs[1].body.entries

(* the POST of a file, with a username and no password *)
C16_WitnessFile ==
    /\ remote.kind = "run"
    /\ args.path.kind = "file"
    /\ args.password = NONE /\ args.username # NONE
    /\ Posts = {1}
    /\ reqs[1].content_type = "stof"
    /\ reqs[1].auth = <<>>

(* a directory whose archive cannot be read: no POST *)
C16_WitnessNoBody ==
    /\ remote.kind = "run"
    /\ args.path.kind = "dir"
    /\ zip = "unreadable"
    /\ remote.pc = "done"
    /\ reqs = <<>>

-----------------------------------------------------------------------------
(* the exclude patterns of the manifest: the strings of root.exclude *)
ExcludePatterns ==
    IF manifest.ok /\ manifest.exclude.kind \in {"array", "set"}
    THEN {v.str : v \in {manifest.exclude.vals[k] : k \in 1..Len(manifest.exclude.vals)}
                            \cap [isString : {TRUE}, str : STRING]}
    ELSE {}

Tokens(path) == {path[k] : k \in 1..Len(path)}

(* no entry below the install directory and none that an exclude pattern   *)
(* matches                                                                 *)
Clean(entries) ==
    \A path \in DOMAIN entries :
        /\ "__stof__" \notin Tokens(path)
        /\ Tokens(path) \cap ExcludePatterns = {}

(* C17: the temporary archive that publish or remote run has built, the    *)
(* body of every PUT and the body of every POST of a directory hold no     *)
(* entry whose path has the install directory __stof__ in it and no entry  *)
(* whose path matches an exclude pattern of the manifest, also when an     *)
(* include pattern matches the same path and also after dependencies have  *)
(* been installed into the package.                                        *)
C17_ArchiveFiltered ==
    /\ Clean(zipped)
    /\ \A r \in 1..Len(reqs) :
          /\ reqs[r].method = "PUT" => Clean(reqs[r].body)
          /\ reqs[r].method = "POST" => Clean(reqs[r].body.entries)

(* a dependency has been installed and the package published after it: the *)
(* PUT has the source file and neither the dependency nor the excluded     *)
(* file                                                                    *)
C17_Witness ==
    /\ <<"__stof__", "/", "a", "/", "x">> \in DOMAIN fs
    /\ ExcludePatterns = {"secret.txt"}
    /\ \E r \in 1..Len(reqs) :
          /\ reqs[r].method = "PUT"
          /\ <<"src", "/", "main.stof">> \in DOMAIN reqs[r].body
          /\ <<"secret.txt">> \notin DOMAIN reqs[r].body

(* a directory that is both included and excluded is not in the POST of a  *)
(* remote run                                                              *)
C17_WitnessIncluded ==
    /\ ExcludePatterns = {"build"}
    /\ "build" \in Included(manifest)
    /\ \E r \in 1..Len(reqs) :
          /\ reqs[r].method = "POST"
          /\ reqs[r].body.kind = "pkg"
          /\ DOMAIN reqs[r].body.entries =
                 {<<"src">>, <<"src", "/", "main.stof">>, <<"secret.txt">>}

-----------------------------------------------------------------------------
Permissions == {"read", "write", "delete", "exec"}

Weight(name) ==
    CASE name = "read" -> 1 [] name = "write" -> 2
      [] name = "delete" -> 4 [] name = "exec" -> 8

RECURSIVE Sum(_)
Sum(names) ==
    IF names = {} THEN 0
    ELSE LET name == CHOOSE n \in names : TRUE
         IN Weight(name) + Sum(names \ {name})

-----------------------------------------------------------------------------
(* the registries declared by the package whose dependency a call installs *)
DeclaredRegistries(i) ==
    LET path == StofDir \o Stripped(calls[calls[i].parent].download_pkg)
                   \o <<"/", "pkg.stof">>
    IN IF calls[i].parent # 0 /\ path \in DOMAIN fs THEN fs[path].man.regs ELSE <<>>

(* no registry of the workspace manifest answers to what a call asks for *)
NotInWorkspace(c) ==
    IF c.registry # NONE THEN NamedObjects(c.registry) = {}
    ELSE RegistryObjects = <<>>

(* the registry of the workspace manifest a call asks for *)
WorkspaceRegistry(c) ==
    IF c.registry # NONE
    THEN manifest.regs[CHOOSE k \in NamedObjects(c.registry) : TRUE]
    ELSE ExpectedDefault

(* C19: every add_package call, at any depth of a dependency chain,        *)
(* resolves its registry in the manifest of the workspace directory: its   *)
(* GET goes to the registry that manifest holds under the name asked for,  *)
(* or to that manifest's default when no name is asked for; and when that  *)
(* manifest has no such registry the call returns "registry not found"     *)
(* without a request, whatever registries the manifest of the package that *)
(* declared the dependency holds.                                          *)
C19_WorkspaceRegistries ==
    \A i \in 1..Len(calls) :
        manifest.ok =>
            IF NotInWorkspace(calls[i])
            THEN /\ calls[i].pc \in {"start", "done"}
                 /\ calls[i].pc = "done" => calls[i].outcome = "registry not found"
                 /\ \A r \in 1..Len(reqs) : reqs[r].call # i
            ELSE \A r \in 1..Len(reqs) : reqs[r].call = i =>
                    /\ WorkspaceRegistry(calls[i]).hasUrl
                    /\ reqs[r].url = WorkspaceRegistry(calls[i]).url \o <<"/registry/">>
                                        \o Stripped(calls[i].download_pkg)

(* a dependency naming a registry that only the manifest of the declaring  *)
(* package holds has returned "registry not found"                         *)
C19_Witness ==
    \E i \in 1..Len(calls) :
        /\ calls[i].parent # 0
        /\ calls[i].registry # NONE
        /\ \E k \in 1..Len(DeclaredRegistries(i)) :
              /\ DeclaredRegistries(i)[k].name = calls[i].registry
              /\ DeclaredRegistries(i)[k].isObject
              /\ DeclaredRegistries(i)[k].hasUrl
        /\ calls[i].outcome = "registry not found"

(* a dependency without registry went to the default of the workspace and  *)
(* not to the default of the declaring package                             *)
C19_WitnessDefault ==
    \E i \in 1..Len(calls), r \in 1..Len(reqs) :
        /\ calls[i].parent # 0
        /\ calls[i].registry = NONE
        /\ \E k \in 1..Len(DeclaredRegistries(i)) :
              DeclaredRegistries(i)[k].default /\ DeclaredRegistries(i)[k].url = Url1
        /\ reqs[r].call = i
        /\ reqs[r].url = Url2 \o <<"/registry/", "a", "/", "b">>

-----------------------------------------------------------------------------
(* the calls made for the dependencies of call i *)
Dependencies(i) == {j \in 1..Len(calls) : calls[j].parent = i}

(* the entries of its manifest call i has gone past *)
Passed(i) ==
    {k \in 1..Len(calls[i].vals) :
        /\ k < calls[i].next
        /\ calls[i].vals[k].kind = "str"
              \/ (calls[i].vals[k].kind = "obj" /\ calls[i].vals[k].hasName)}

Aborted(j) ==
    calls[j].pc = "done" /\ calls[j].outcome \notin {"added", "added dependency"}

(* the entries of the archive of call i are in its install directory *)
StaysInstalled(i) ==
    LET archive == Serve(calls[i].url).archive
        outdir == StofDir \o Stripped(calls[i].download_pkg)
    IN \A rel \in DOMAIN archive :
          /\ outdir \o <<"/">> \o rel \in DOMAIN fs
          /\ fs[outdir \o <<"/">> \o rel] = archive[rel]

(* C20: the failure of a dependency is not propagated. A call that has     *)
(* extracted its package has made one call per entry it has gone past, in  *)
(* the order of the entries and whatever the earlier ones returned; it     *)
(* never returns a failure itself, but "added" (or "added dependency");    *)
(* and while it has made no call but calls that aborted, its own package   *)
(* is still where it was extracted.                                        *)
C20_FailureNotPropagated ==
    \A i \in 1..Len(calls) :
        (calls[i].pc = "deps" \/ Dependencies(i) # {}) =>
            /\ {calls[j].depIdx : j \in Dependencies(i)} = Passed(i)
            /\ \A j, k \in Dependencies(i) :
                  (j < k) <=> (calls[j].depIdx < calls[k].depIdx)
            /\ calls[i].pc = "done" =>
                  /\ calls[i].next = Len(calls[i].vals) + 1
                  /\ calls[i].outcome
                        = (IF calls[i].dependency THEN "added dependency" ELSE "added")
            /\ (/\ calls[i].pc = "deps"
                /\ Dependencies(i) # {}
                /\ \A j \in Dependencies(i) : Aborted(j)) => StaysInstalled(i)

(* a package is reported as added whose first dependency aborted and whose *)
(* later dependency was installed                                          *)
C20_Witness ==
    \E i \in 1..Len(calls) : \E j, k \in Dependencies(i) :
        /\ calls[i].pc = "done" /\ calls[i].outcome = "added"
        /\ calls[j].depIdx < calls[k].depIdx
        /\ Aborted(j)
        /\ calls[k].pc = "done" /\ calls[k].outcome = "added dependency"
        /\ StaysInstalled(i)

(* a package is reported as added although a dependency of it has aborted  *)
(* before any request                                                      *)
C20_WitnessNoRequest ==
    \E i \in 1..Len(calls) : \E j \in Dependencies(i) :
        /\ calls[i].pc = "done" /\ calls[i].outcome = "added"
        /\ Aborted(j) /\ calls[j].outcome \in NoRequestCauses

(* a package is still installed while the only dependency it has called    *)
(* so far has aborted                                                      *)
C20_WitnessInstalled ==
    \E i \in 1..Len(calls) :
        /\ calls[i].pc = "deps"
        /\ Dependencies(i) # {}
        /\ \A j \in Dependencies(i) : Aborted(j)
        /\ Serve(calls[i].url).archive # <<>>
        /\ StaysInstalled(i)

-----------------------------------------------------------------------------
(* the packages whose manifest is in their install directory *)
InstalledPackages ==
    {q \in Packages : StofDir \o Stripped(q) \o PkgStof \in DOMAIN fs}

(* the names a step removes or extracts: the argument of a remove_package  *)
(* that has been carried out, and the package of a call that goes from its *)
(* request to its dependencies                                             *)
Touched ==
    {q \in Packages : last' # last /\ last'[1] = "remove" /\ last'[2] = q}
      \cup {calls[i].download_pkg :
               i \in {j \in 1..Len(calls) :
                        /\ Len(calls') >= j
                        /\ calls[j].pc = "get"
                        /\ calls'[j].pc = "deps"}}

(* the entries of the install directories of the installed packages whose  *)
(* stripped name is not the stripped form of name                          *)
OthersEntries(name) ==
    {path \in DOMAIN fs :
        \E q \in InstalledPackages :
            /\ Stripped(q) # Stripped(name)
            /\ Under(path, StofDir \o Stripped(q))}

(* C21: a remove of name, and the wipe before the extraction of an install *)
(* of name, leave every entry of every installed package with another      *)
(* stripped name where it is and as it is, also those of a package whose   *)
(* stripped name begins with the stripped form of name and a "/".          *)
C21_OnlyOwnDirectory ==
    [][\A name \in Touched : \A path \in OthersEntries(name) :
          path \in DOMAIN fs' /\ fs'[path] = fs[path]]_vars

=============================================================================
